---- MODULE Spec2Model ----
(***************************************************************************)
(* A model of delve, a terminal gopher client (src/delve.c).               *)
(*                                                                         *)
(* C strings are modelled as sequences of one-character strings, so that   *)
(* the in-place tokenising of str_split/str_skip/next_token is computed    *)
(* character by character as the code does it.  A NULL pointer is the      *)
(* value NULL, which is no sequence of characters.                         *)
(***************************************************************************)
EXTENDS Integers, Sequences, FiniteSets, TLC

(***************************************************************************)
(* Strings (src/delve.c 1005-1039)                                         *)
(***************************************************************************)
NULL == <<"NULL">>

UpperCase == <<"A","B","C","D","E","F","G","H","I","J","K","L","M",
               "N","O","P","Q","R","S","T","U","V","W","X","Y","Z">>

LowerCase == <<"a","b","c","d","e","f","g","h","i","j","k","l","m",
               "n","o","p","q","r","s","t","u","v","w","x","y","z">>

\* the lower-case letter of every upper-case letter
LowerOf == [c \in {UpperCase[i] : i \in 1..26} |->
              LowerCase[CHOOSE i \in 1..26 : UpperCase[i] = c]]

tolower(c) == IF c \in DOMAIN LowerOf THEN LowerOf[c] ELSE c

\* strcasecmp(a, b) = 0 iff a and b are equal ignoring letter case
strcasecmp(a, b) ==
  IF Len(a) = Len(b) /\ \A i \in 1..Len(a) : tolower(a[i]) = tolower(b[i])
  THEN 0 ELSE 1

\* the size of the char buffer[1024] that vsnprintf/snprintf format into
BufferSize == 1024

\* snprintf(buffer, sizeof(buffer), ...): at most BufferSize-1 characters
snprintf(s) == IF Len(s) > BufferSize - 1 THEN SubSeq(s, 1, BufferSize - 1) ELSE s

\* str_copy: NULL and "" both become the shared empty string
str_copy(str) == IF str = NULL THEN <<>> ELSE str

\* index of the first character of str that is in delim, Len(str)+1 if none
\* (the scan of str_split, which also stops at the terminating NUL)
strcspn(str, delim) ==
  IF \E i \in 1..Len(str) : str[i] \in delim
  THEN CHOOSE i \in 1..Len(str) :
         str[i] \in delim /\ \A j \in 1..(i-1) : str[j] \notin delim
  ELSE Len(str) + 1

\* str_skip: the string after its leading run of delim characters
str_skip(str, delim) ==
  IF \A i \in 1..Len(str) : str[i] \in delim
  THEN <<>>
  ELSE SubSeq(str, strcspn(str, {str[i] : i \in 1..Len(str)} \ delim), Len(str))

\* str_split(&str, delim): tok is the returned token (NULL when str is NULL
\* or empty), rest is *str afterwards (one delimiter is consumed)
str_split(str, delim) ==
  IF str = NULL \/ str = <<>>
  THEN [tok |-> NULL, rest |-> str]
  ELSE LET k == strcspn(str, delim)
       IN [tok  |-> SubSeq(str, 1, k - 1),
           rest |-> IF k <= Len(str) THEN SubSeq(str, k + 1, Len(str)) ELSE <<>>]

LineBreaks == {"\r", "\n"}

Blanks == {" ", "\t"}

(***************************************************************************)
(* Variable stores (src/delve.c 1054-1083): a linked list, head first      *)
(***************************************************************************)
\* the search loop of set_var as it would be with strcmp in place of strcasecmp
find_var_exact(list, name) ==
  IF \E i \in 1..Len(list) : list[i].name = name
  THEN CHOOSE i \in 1..Len(list) :
         list[i].name = name /\ \A j \in 1..(i-1) : list[j].name # name
  ELSE 0

\* position of the first entry whose name equals name ignoring case, 0 if none
find_var(list, name) ==
  IF \E i \in 1..Len(list) : strcasecmp(list[i].name, name) = 0
  THEN CHOOSE i \in 1..Len(list) :
         /\ strcasecmp(list[i].name, name) = 0
         /\ \A j \in 1..(i-1) : strcasecmp(list[j].name, name) # 0
  ELSE 0

\* set_var as it would be if a lookup of a missing name created an empty entry
set_var_creates(list, name, data) ==
  IF name = NULL THEN [list |-> list, ret |-> NULL]
  ELSE LET var == find_var(list, name)
           buffer == IF data = NULL THEN <<>> ELSE snprintf(data)
       IN IF var = 0
          THEN [list |-> <<[name |-> str_copy(name), data |-> str_copy(buffer)]>> \o list,
                ret  |-> str_copy(buffer)]
          ELSE IF data # NULL
          THEN [list |-> [list EXCEPT ![var].data = str_copy(buffer)],
                ret  |-> str_copy(buffer)]
          ELSE [list |-> list, ret |-> list[var].data]

\* set_var(&list, name, fmt, ...): data = NULL is the call with fmt == NULL.
\* list is *list afterwards, ret the returned pointer's string (or NULL).
set_var(list, name, data) ==
  IF name = NULL THEN [list |-> list, ret |-> NULL]
  ELSE LET var == find_var(list, name)
           buffer == snprintf(data)
       IN IF data # NULL
          THEN IF var = 0
               THEN [list |-> <<[name |-> str_copy(name), data |-> str_copy(buffer)]>> \o list,
                     ret  |-> str_copy(buffer)]
               ELSE [list |-> [list EXCEPT ![var].data = str_copy(buffer)],
                     ret  |-> str_copy(buffer)]
          ELSE [list |-> list,
                ret  |-> IF var = 0 THEN NULL ELSE list[var].data]

(***************************************************************************)
(* Selectors and selector lists (src/delve.c 1100-1229)                    *)
(***************************************************************************)
\* Every selector is a node obtained from new_selector (src/delve.c
\* 1101-1107); its field node names the function whose call of new_selector
\* allocated it, so that two entries with different node fields are never
\* the same node.

\* copy_selector as it would be if it handed back its argument instead of
\* filling a new node
copy_selector_shared(sel) == sel

copy_selector(sel) ==
  [index |-> 1, type |-> sel.type, name |-> str_copy(sel.name),
   host |-> str_copy(sel.host), port |-> str_copy(sel.port),
   path |-> str_copy(sel.path), node |-> "copy_selector"]

\* append_selector as it would be if the new index were counted from the
\* head instead of the last entry
append_selector_from_head(list, sel) ==
  IF list = <<>>
  THEN <<[sel EXCEPT !.index = 1]>>
  ELSE Append(list, [sel EXCEPT !.index = list[1].index + 1])

\* lists are sequences of selectors, head first
append_selector(list, sel) ==
  IF list = <<>>
  THEN <<[sel EXCEPT !.index = 1]>>
  ELSE Append(list, [sel EXCEPT !.index = list[Len(list)].index + 1])

\* prepend_selector as it would be if the new head always got the index 1
prepend_selector_unindexed(list, sel) ==
  <<[sel EXCEPT !.index = 1]>> \o list

prepend_selector(list, sel) ==
  <<[sel EXCEPT !.index = IF list # <<>> THEN list[1].index + 1 ELSE 1]>> \o list

Digits == <<"0","1","2","3","4","5","6","7","8","9">>

IsDigit(c) == \E d \in 1..10 : Digits[d] = c

DigitValue(c) == (CHOOSE d \in 1..10 : Digits[d] = c) - 1

RECURSIVE atoi_digits(_, _)
atoi_digits(str, acc) ==
  IF str # <<>> /\ IsDigit(str[1])
  THEN atoi_digits(Tail(str), acc * 10 + DigitValue(str[1]))
  ELSE acc

\* atoi: leading white space, an optional sign, then the leading digits
atoi(line) ==
  LET s == str_skip(line, {" ", "\t", "\n", "\r"})
  IN IF s # <<>> /\ s[1] = "-" THEN 0 - atoi_digits(Tail(s), 0)
     ELSE IF s # <<>> /\ s[1] = "+" THEN atoi_digits(Tail(s), 0)
     ELSE atoi_digits(s, 0)

\* find_selector as it would be if it counted entries from the head instead
\* of comparing their index
find_selector_by_position(list, line) ==
  LET index == atoi(line)
  IN IF index <= 0 \/ index > Len(list) THEN 0 ELSE index

\* find_selector: the position in list of the first selector whose index is
\* atoi(line); 0 stands for the NULL result
find_selector(list, line) ==
  LET index == atoi(line)
  IN IF index <= 0 \/ ~(\E i \in 1..Len(list) : list[i].index = index)
     THEN 0
     ELSE CHOOSE i \in 1..Len(list) :
            list[i].index = index /\ \A j \in 1..(i-1) : list[j].index # index

GopherPrefix == <<"g","o","p","h","e","r",":","/","/">>

\* the NULL selector pointer
NoSelector == [null |-> TRUE]

print_selector(sel, with_prefix) ==
  IF sel = NoSelector THEN <<>>
  ELSE snprintf((IF with_prefix THEN GopherPrefix ELSE <<>>)
                \o sel.host \o <<":">> \o sel.port \o <<"/">> \o <<sel.type>> \o sel.path)

DefaultPort == <<"7","0">>

\* parse_selector as it would be without the test for an absent or empty
\* locator
parse_selector_unchecked(str0) ==
  LET str1 == str_copy(str0)
      str == IF Len(str1) >= 9 /\ SubSeq(str1, 1, 9) = GopherPrefix
             THEN SubSeq(str1, 10, Len(str1)) ELSE str1
      p   == strcspn(str, {":", "/"})
      sel ==
        IF p <= Len(str)
        THEN LET h  == str_split(str, IF str[p] = ":" THEN {":"} ELSE {"/"})
                 pt == IF str[p] = ":" THEN str_split(h.rest, {"/"})
                       ELSE [tok |-> DefaultPort, rest |-> h.rest]
             IN [index |-> 0,
                 type  |-> IF pt.rest # <<>> THEN pt.rest[1] ELSE "1",
                 host  |-> str_copy(h.tok),
                 port  |-> str_copy(pt.tok),
                 path  |-> IF pt.rest # <<>> THEN Tail(pt.rest) ELSE <<>>]
        ELSE [index |-> 0, type |-> "1", host |-> str_copy(str),
              port |-> DefaultPort, path |-> <<>>]
  IN [index |-> sel.index, type |-> sel.type,
      name |-> str_copy(print_selector(sel, TRUE)),
      host |-> sel.host, port |-> sel.port, path |-> sel.path,
      node |-> "parse_selector"]

parse_selector(str0) ==
  IF str0 = NULL \/ str0 = <<>> THEN NoSelector
  ELSE
    LET str == IF Len(str0) >= 9 /\ SubSeq(str0, 1, 9) = GopherPrefix
               THEN SubSeq(str0, 10, Len(str0)) ELSE str0
        p   == strcspn(str, {":", "/"})
        sel ==
          IF p <= Len(str)
          THEN LET h  == str_split(str, IF str[p] = ":" THEN {":"} ELSE {"/"})
                   pt == IF str[p] = ":" THEN str_split(h.rest, {"/"})
                         ELSE [tok |-> DefaultPort, rest |-> h.rest]
               IN [index |-> 0,
                   type  |-> IF pt.rest # <<>> THEN pt.rest[1] ELSE "1",
                   host  |-> str_copy(h.tok),
                   port  |-> str_copy(pt.tok),
                   path  |-> IF pt.rest # <<>> THEN Tail(pt.rest) ELSE <<>>]
          ELSE [index |-> 0, type |-> "1", host |-> str_copy(str),
                port |-> DefaultPort, path |-> <<>>]
    IN [index |-> sel.index, type |-> sel.type,
        name |-> str_copy(print_selector(sel, TRUE)),
        host |-> sel.host, port |-> sel.port, path |-> sel.path,
        node |-> "parse_selector"]

RECURSIVE parse_selector_list_from(_, _)
parse_selector_list_from(str, list) ==
  LET l == str_split(str, LineBreaks)
  IN IF l.tok = NULL \/ l.tok = <<>> \/ l.tok[1] = "."
     THEN list
     ELSE LET f1 == str_split(Tail(l.tok), {"\t"})
              f2 == str_split(f1.rest, {"\t"})
              f3 == str_split(f2.rest, {"\t"})
              f4 == str_split(f3.rest, {"\t"})
              sel == [index |-> 0, type |-> l.tok[1],
                      name |-> str_copy(f1.tok), path |-> str_copy(f2.tok),
                      host |-> str_copy(f3.tok), port |-> str_copy(f4.tok),
                      node |-> "parse_selector_list"]
          IN parse_selector_list_from(str_skip(l.rest, LineBreaks),
                                      append_selector(list, sel))

\* parse_selector_list: the empty sequence is the NULL list
parse_selector_list(str) == parse_selector_list_from(str, <<>>)

(***************************************************************************)
(* The process state the handlers work on is passed around as a record w   *)
(* with the six global lists (src/delve.c 967-972), the output written so  *)
(* far (log), the unread rest of the current input line (stdin) and the    *)
(* process status.  A handler is an operator from w and                    *)
(* the environment's answers env to the record after it has returned.      *)
(*   env.net  : what download() meets on the network                       *)
(*   env.line : the next line of stdin when read_line() is called inside   *)
(*              a handler                                                  *)
(*   env.ub   : what an execution with undefined behaviour does            *)
(*   env.io   : whether creating and writing a file succeeds               *)
(***************************************************************************)
\* one piece of output or one call of an external service: what is a constant
\* string, args a tuple of strings, num a number
Ev(kind, what, args, num) == [ev |-> kind, what |-> what, args |-> args, num |-> num]

Out(w, kind, what, args, num) ==
  [w EXCEPT !.log = Append(@, Ev(kind, what, args, num))]

\* error(fmt, ...): a message on the terminal, nothing else
error(w, fmt, args, num) == Out(w, "error", fmt, args, num)

\* selector pointers: a node of one of the three lists (by position), a
\* selector on the heap that is in no list, or the NULL pointer
Ptr(list, pos) == [list |-> list, pos |-> pos, sel |-> NoSelector]

HeapPtr(sel) == [list |-> IF sel = NoSelector THEN "null" ELSE "heap", pos |-> 0, sel |-> sel]

NullPtr == HeapPtr(NoSelector)

ListPtr(list, pos) == IF pos = 0 THEN NullPtr ELSE Ptr(list, pos)

deref(w, p) ==
  CASE p.list = "menu"      -> w.menu[p.pos]
    [] p.list = "history"   -> w.history[p.pos]
    [] p.list = "bookmarks" -> w.bookmarks[p.pos]
    [] OTHER                -> p.sel

\* the comparison history != to of navigate: two pointers, not two values
is_history_head(p) == p.list = "history" /\ p.pos = 1

\* next_token(&str): tok is the returned token, rest is *str afterwards.
\* A token that starts with $ is the pointer set_var returns, the stored
\* data of the variable itself: var is that variable's position in
\* variables, 0 for a token that lies in the line or is the literal "".
next_token(variables, str0) ==
  IF str0 = NULL THEN [tok |-> NULL, rest |-> NULL, var |-> 0]
  ELSE LET str == str_skip(str0, Blanks)
       IN IF str = <<>> \/ str[1] = "#" THEN [tok |-> NULL, rest |-> str, var |-> 0]
          ELSE IF str[1] = "\"" 
               THEN LET q == str_split(Tail(str), {"\""})
                    IN [tok |-> q.tok, rest |-> q.rest, var |-> 0]
          ELSE IF str[1] = "$"
               THEN LET n == str_split(Tail(str), Blanks)
                        data == set_var(variables, n.tok, NULL).ret
                    IN [tok  |-> IF data # NULL THEN data ELSE <<>>,
                        rest |-> n.rest,
                        var  |-> IF data # NULL THEN find_var(variables, n.tok) ELSE 0]
          ELSE LET t == str_split(str, Blanks)
               IN [tok |-> t.tok, rest |-> t.rest, var |-> 0]

\* what the buffer handed to parse_selector reads once parse_selector is
\* through with it: str_split has put the terminator over the first ':' or
\* '/' that follows the optional gopher:// prefix
parse_selector_buffer(str0) ==
  IF str0 = NULL \/ str0 = <<>> THEN str0
  ELSE LET skip == IF Len(str0) >= 9 /\ SubSeq(str0, 1, 9) = GopherPrefix
                   THEN 9 ELSE 0
           p == strcspn(SubSeq(str0, skip + 1, Len(str0)), {":", "/"})
       IN SubSeq(str0, 1, skip + p - 1)

\* parse_selector(token) as the commands call it: a token that came from a
\* $variable is that variable's data, which parse_selector splits in place
parse_token(w, t) ==
  IF t.var = 0 THEN w
  ELSE [w EXCEPT !.variables[t.var].data = parse_selector_buffer(t.tok)]

\* the size of read_line's buffer
LineSize == 256

\* fgets(buffer, sizeof(buffer), stdin) on the input line input: at most
\* LineSize - 1 characters are read, the others stay in stdin
fgets(input) == SubSeq(input, 1, IF Len(input) < LineSize THEN Len(input) ELSE LineSize - 1)

\* what fgets leaves in stdin of the input line input
unread(input) ==
  IF input = NULL \/ Len(input) < LineSize THEN <<>>
  ELSE SubSeq(input, LineSize, Len(input))

\* read_line: NULL at end of input, else what fgets read, without leading
\* blanks and without its line break
read_line(input) ==
  IF input = NULL THEN NULL
  ELSE LET line == str_split(str_skip(fgets(input), Blanks), LineBreaks).tok
       IN IF line # NULL THEN line ELSE <<>>

\* what the next read_line inside a handler is given: the rest of a line
\* that did not fit the buffer when there is one (w.stdin), else the next
\* line of the terminal (env.line)
stdin_line(w, env) == IF w.stdin # <<>> THEN w.stdin ELSE env.line

\* w after a read_line inside a handler
consume(w) == [w EXCEPT !.stdin = unread(@)]

\* download: data is the response (NULL on failure), w has the messages
download(w, sel, query, env) ==
  IF env.net.result = "noresolve"
  THEN [w |-> error(w, "cannot resolve hostname", <<sel.host>>, 0), data |-> NULL]
  ELSE IF env.net.result = "noconnect"
  THEN [w |-> error(w, "cannot connect to", <<sel.host, sel.port>>, 0), data |-> NULL]
  ELSE [w |-> Out(w, "send", "",
                  <<IF query # NULL
                    THEN snprintf(sel.path \o <<"\t">> \o query \o <<"\r", "\n">>)
                    ELSE snprintf(sel.path \o <<"\r", "\n">>), sel.host>>, 0),
        data |-> env.net.data]

\* download_to_menu: list is NULL (the empty sequence) when download fails
download_to_menu(w, sel, query, env) ==
  LET d == download(w, sel, query, env)
  IN IF d.data = NULL THEN [w |-> d.w, list |-> <<>>]
     ELSE [w |-> d.w, list |-> parse_selector_list(d.data)]

TempFileName == <<"/", "t", "m", "p", "/", "d">>

\* download_to_temp: filename is NULL when the download or the file fails
download_to_temp(w, sel, env) ==
  LET d == download(w, sel, NULL, env)
  IN IF d.data = NULL THEN [w |-> d.w, filename |-> NULL]
     ELSE IF ~env.io
     THEN [w |-> Out(error(d.w, "cannot create or write temporary file", <<>>, 0),
                     "remove", "", <<TempFileName>>, 0),
           filename |-> NULL]
     ELSE [w |-> Out(d.w, "tempfile", "", <<TempFileName, d.data>>, 0), filename |-> TempFileName]

\* position of the last '/' of path, 0 when strrchr returns NULL
strrchr_slash(path) ==
  IF \E i \in 1..Len(path) : path[i] = "/"
  THEN CHOOSE i \in 1..Len(path) :
         path[i] = "/" /\ \A j \in (i+1)..Len(path) : path[j] # "/"
  ELSE 0

download_to_file(w, sel, env) ==
  LET slash == strrchr_slash(sel.path)
  IN IF slash = 0 /\ env.ub = "crash"
     THEN [w EXCEPT !.status = "crash"]   \* *def with def == NULL
     ELSE
       LET def == SubSeq(sel.path, slash + 1, Len(sel.path))
           dir == set_var(w.variables, <<"D","O","W","N","L","O","A","D","_",
                          "D","I","R","E","C","T","O","R","Y">>, NULL).ret
           suggestion == snprintf((IF dir = NULL THEN <<".">> ELSE dir) \o <<"/">> \o def)
           d == download(w, sel, NULL, env)
           filename == read_line(stdin_line(w, env))
           r == consume(d.w)
       IN IF d.data = NULL THEN d.w
          ELSE IF filename = NULL THEN r
          ELSE IF ~env.io
          THEN error(r, "cannot create file",
                     <<IF filename = <<>> THEN suggestion ELSE filename>>, 0)
          ELSE Out(r, "write_file", "",
                   <<IF filename = <<>> THEN suggestion ELSE filename, d.data>>, 0)

\* find_selector_handler as it would be if it searched the session variables
\* instead of the type handlers
find_selector_handler_in_variables(w, type) == set_var(w.variables, <<type>>, NULL).ret

find_selector_handler(w, type) == set_var(w.typehandlers, <<type>>, NULL).ret

print_menu(w, list, filter) == Out(w, "print_menu", "", <<>>, Len(list))

print_text(w, text) == Out(w, "print_text", "", <<text>>, 0)

\* the command string execute_handler builds; files counts the %f it met
RECURSIVE handler_command(_, _, _)
handler_command(handler, to, command) ==
  IF handler = <<>> \/ Len(command) >= BufferSize - 1
  THEN [command |-> command, files |-> 0]
  ELSE IF handler[1] = "%" /\ Len(handler) >= 2
  THEN LET c == handler[2]
           append == CASE c = "%" -> <<"%">>
                       [] c = "h" -> to.host
                       [] c = "p" -> to.port
                       [] c = "s" -> to.path
                       [] c = "n" -> to.name
                       [] c = "f" -> TempFileName
                       [] OTHER   -> <<>>
           r == handler_command(SubSeq(handler, 3, Len(handler)), to,
                                snprintf(command \o append))
       IN [command |-> r.command, files |-> r.files + (IF c = "f" THEN 1 ELSE 0)]
  ELSE handler_command(Tail(handler), to, Append(command, handler[1]))

\* execute_handler as it would be without the remove(filename) at its end
execute_handler_keeps_file(w, handler, to, env) ==
  LET c == handler_command(handler, to, <<>>)
      t == download_to_temp(w, to, env)
  IN IF c.files = 0 THEN Out(w, "system", "", <<c.command>>, 0)
     ELSE IF t.filename = NULL THEN t.w
     ELSE Out(t.w, "system", "", <<c.command>>, 0)

execute_handler(w, handler, to, env) ==
  LET c == handler_command(handler, to, <<>>)
      t == download_to_temp(w, to, env)
  IN IF c.files = 0 THEN Out(w, "system", "", <<c.command>>, 0)
     ELSE IF t.filename = NULL THEN t.w
     ELSE Out(Out(t.w, "system", "", <<c.command>>, 0), "remove", "", <<t.filename>>, 0)

\* navigate as it would be if the old menu were released and replaced before
\* the result of the download is looked at
navigate_frees_first(w, p, env) ==
  IF p = NullPtr THEN w
  ELSE
    LET to == deref(w, p)
    IN CASE to.type \in {"1", "7"} ->
              LET query == IF to.type = "7" THEN read_line(stdin_line(w, env)) ELSE NULL
                  new == download_to_menu(IF to.type = "7" THEN consume(w) ELSE w, to, query, env)
              IN IF new.list = <<>> THEN [new.w EXCEPT !.menu = <<>>]
                 ELSE [print_menu(new.w, new.list, NULL) EXCEPT
                         !.history = IF ~is_history_head(p)
                                     THEN prepend_selector(@, copy_selector(to))
                                     ELSE @,
                         !.menu = new.list]
         [] to.type \in {"4", "5", "6", "9"} -> download_to_file(w, to, env)
         [] to.type \in {"i", "3"} -> w
         [] OTHER ->
              LET handler == find_selector_handler(w, to.type)
              IN IF handler # NULL THEN execute_handler(w, handler, to, env)
                 ELSE IF to.type = "0"
                 THEN LET d == download(w, to, NULL, env)
                      IN print_text(d.w, d.data)
                 ELSE error(w, "no handler for type", <<<<to.type>>>>, 0)

\* navigate as it would be without the case for the types 'i' and '3'
navigate_no_ignore(w, p, env) ==
  IF p = NullPtr THEN w
  ELSE
    LET to == deref(w, p)
    IN CASE to.type \in {"1", "7"} ->
              LET query == IF to.type = "7" THEN read_line(stdin_line(w, env)) ELSE NULL
                  new == download_to_menu(IF to.type = "7" THEN consume(w) ELSE w, to, query, env)
              IN IF new.list = <<>> THEN new.w
                 ELSE [print_menu(new.w, new.list, NULL) EXCEPT
                         !.history = IF ~is_history_head(p)
                                     THEN prepend_selector(@, copy_selector(to))
                                     ELSE @,
                         !.menu = new.list]
         [] to.type \in {"4", "5", "6", "9"} -> download_to_file(w, to, env)
         [] OTHER ->
              LET handler == find_selector_handler(w, to.type)
              IN IF handler # NULL THEN execute_handler(w, handler, to, env)
                 ELSE IF to.type = "0"
                 THEN LET d == download(w, to, NULL, env)
                      IN print_text(d.w, d.data)
                 ELSE error(w, "no handler for type", <<<<to.type>>>>, 0)

\* navigate as it would be if type '0' had a case of its own before the
\* default branch, so that no handler were looked up for it
navigate_text_first(w, p, env) ==
  IF p = NullPtr THEN w
  ELSE
    LET to == deref(w, p)
    IN CASE to.type \in {"1", "7"} ->
              LET query == IF to.type = "7" THEN read_line(stdin_line(w, env)) ELSE NULL
                  new == download_to_menu(IF to.type = "7" THEN consume(w) ELSE w, to, query, env)
              IN IF new.list = <<>> THEN new.w
                 ELSE [print_menu(new.w, new.list, NULL) EXCEPT
                         !.history = IF ~is_history_head(p)
                                     THEN prepend_selector(@, copy_selector(to))
                                     ELSE @,
                         !.menu = new.list]
         [] to.type \in {"4", "5", "6", "9"} -> download_to_file(w, to, env)
         [] to.type \in {"i", "3"} -> w
         [] to.type = "0" ->
              LET d == download(w, to, NULL, env)
              IN print_text(d.w, d.data)
         [] OTHER ->
              LET handler == find_selector_handler(w, to.type)
              IN IF handler # NULL THEN execute_handler(w, handler, to, env)
                 ELSE error(w, "no handler for type", <<<<to.type>>>>, 0)

\* navigate as it would be if a text that was shown were recorded in
\* history as a menu is
navigate_records_text(w, p, env) ==
  IF p = NullPtr THEN w
  ELSE
    LET to == deref(w, p)
    IN CASE to.type \in {"1", "7"} ->
              LET query == IF to.type = "7" THEN read_line(stdin_line(w, env)) ELSE NULL
                  new == download_to_menu(IF to.type = "7" THEN consume(w) ELSE w, to, query, env)
              IN IF new.list = <<>> THEN new.w
                 ELSE [print_menu(new.w, new.list, NULL) EXCEPT
                         !.history = IF ~is_history_head(p)
                                     THEN prepend_selector(@, copy_selector(to))
                                     ELSE @,
                         !.menu = new.list]
         [] to.type \in {"4", "5", "6", "9"} -> download_to_file(w, to, env)
         [] to.type \in {"i", "3"} -> w
         [] OTHER ->
              LET handler == find_selector_handler(w, to.type)
              IN IF handler # NULL THEN execute_handler(w, handler, to, env)
                 ELSE IF to.type = "0"
                 THEN LET d == download(w, to, NULL, env)
                      IN [print_text(d.w, d.data) EXCEPT
                            !.history = prepend_selector(@, copy_selector(to))]
                 ELSE error(w, "no handler for type", <<<<to.type>>>>, 0)

\* navigate as it would be if the handler were looked up before the switch
\* on the type, for every type
navigate_handler_first(w, p, env) ==
  IF p = NullPtr THEN w
  ELSE IF find_selector_handler(w, deref(w, p).type) # NULL
  THEN execute_handler(w, find_selector_handler(w, deref(w, p).type), deref(w, p), env)
  ELSE
      LET to == deref(w, p)
      IN CASE to.type \in {"1", "7"} ->
                LET query == IF to.type = "7" THEN read_line(stdin_line(w, env)) ELSE NULL
                    new == download_to_menu(IF to.type = "7" THEN consume(w) ELSE w, to, query, env)
                IN IF new.list = <<>> THEN new.w
                   ELSE [print_menu(new.w, new.list, NULL) EXCEPT
                           !.history = IF ~is_history_head(p)
                                       THEN prepend_selector(@, copy_selector(to))
                                       ELSE @,
                           !.menu = new.list]
           [] to.type \in {"4", "5", "6", "9"} -> download_to_file(w, to, env)
           [] to.type \in {"i", "3"} -> w
           [] OTHER ->
                LET handler == find_selector_handler(w, to.type)
                IN IF handler # NULL THEN execute_handler(w, handler, to, env)
                   ELSE IF to.type = "0"
                   THEN LET d == download(w, to, NULL, env)
                        IN print_text(d.w, d.data)
                   ELSE error(w, "no handler for type", <<<<to.type>>>>, 0)

navigate(w, p, env) ==
  IF p = NullPtr THEN w
  ELSE
    LET to == deref(w, p)
    IN CASE to.type \in {"1", "7"} ->
              LET query == IF to.type = "7" THEN read_line(stdin_line(w, env)) ELSE NULL
                  new == download_to_menu(IF to.type = "7" THEN consume(w) ELSE w, to, query, env)
              IN IF new.list = <<>> THEN new.w
                 ELSE [print_menu(new.w, new.list, NULL) EXCEPT
                         !.history = IF ~is_history_head(p)
                                     THEN prepend_selector(@, copy_selector(to))
                                     ELSE @,
                         !.menu = new.list]
         [] to.type \in {"4", "5", "6", "9"} -> download_to_file(w, to, env)
         [] to.type \in {"i", "3"} -> w
         [] OTHER ->
              LET handler == find_selector_handler(w, to.type)
              IN IF handler # NULL THEN execute_handler(w, handler, to, env)
                 ELSE IF to.type = "0"
                 THEN LET d == download(w, to, NULL, env)
                      IN print_text(d.w, d.data)
                 ELSE error(w, "no handler for type", <<<<to.type>>>>, 0)

(***************************************************************************)
(* Commands (src/delve.c 1526-1839)                                        *)
(***************************************************************************)
\* edit_variable on one of the three stores; vars is the store's name
edit_variable(w, vars, line, env) ==
  LET name == next_token(w.variables, line)
      data == next_token(w.variables, name.rest)
  IN IF name.tok # NULL
     THEN IF data.tok # NULL
          THEN [w EXCEPT ![vars] = set_var(@, name.tok, data.tok).list]
          ELSE LET found == set_var(w[vars], name.tok, NULL).ret
               IN IF found # NULL THEN Out(w, "puts", "", <<found>>, 0)
                  ELSE IF env.ub = "crash"
                  THEN [w EXCEPT !.status = "crash"]   \* puts(NULL)
                  ELSE Out(w, "puts", "", <<NULL>>, 0)
     ELSE Out(w, "list", vars, <<>>, Len(w[vars]))

cmd_quit(w, line, env) == [w EXCEPT !.status = "exit"]

cmd_open(w, line, env) ==
  LET t == next_token(w.variables, line)
  IN navigate(parse_token(w, t), HeapPtr(parse_selector(t.tok)), env)

cmd_show(w, line, env) == print_menu(w, w.menu, next_token(w.variables, line).tok)

cmd_save(w, line, env) ==
  LET to == find_selector(w.menu, line)
  IN IF to # 0 THEN download_to_file(w, w.menu[to], env) ELSE w

\* cmd_back as it would be if it tested history instead of history->next:
\* the last entry is popped too
cmd_back_pops_last(w, line, env) ==
  IF Len(w.history) >= 1
  THEN navigate([w EXCEPT !.history = Tail(@)],
                IF Len(w.history) >= 2 THEN Ptr("history", 1) ELSE NullPtr, env)
  ELSE error(w, "history empty", <<>>, 0)

cmd_back(w, line, env) ==
  IF Len(w.history) >= 2
  THEN navigate([w EXCEPT !.history = Tail(@)], Ptr("history", 1), env)
  ELSE error(w, "history empty", <<>>, 0)

cmd_help(w, line, env) == Out(w, "help", "", <<next_token(w.variables, line).tok>>, 0)

cmd_history(w, line, env) ==
  LET to == find_selector(w.history, line)
  IN IF to # 0 THEN navigate(w, Ptr("history", to), env)
     ELSE print_menu(w, w.history, next_token(w.variables, line).tok)

cmd_bookmarks(w, line, env) ==
  LET to == find_selector(w.bookmarks, line)
  IN IF to # 0 THEN navigate(w, Ptr("bookmarks", to), env)
     ELSE LET name == next_token(w.variables, line)
              url  == next_token(w.variables, name.rest)
          IN IF url.tok # NULL
             THEN LET sel == parse_selector(url.tok)
                      \* name is read after parse_selector has split url in
                      \* place: both may point at the same variable's data
                      read == IF name.var # 0 /\ name.var = url.var
                              THEN parse_selector_buffer(url.tok) ELSE name.tok
                  IN IF sel # NoSelector
                     THEN [parse_token(w, url) EXCEPT !.bookmarks =
                             append_selector(@, [sel EXCEPT !.name = str_copy(read)])]
                     ELSE w
             ELSE print_menu(w, w.bookmarks, name.tok)

cmd_set(w, line, env) == edit_variable(w, "variables", line, env)

cmd_see(w, line, env) ==
  LET to == find_selector(w.menu, line)
  IN IF to # 0 /\ w.menu[to].type \notin {"3", "i"}
     THEN Out(w, "puts", "", <<print_selector(w.menu[to], TRUE)>>, 0)
     ELSE w

cmd_alias(w, line, env) == edit_variable(w, "aliases", line, env)

cmd_type(w, line, env) == edit_variable(w, "typehandlers", line, env)

\* which answers of the environment navigate asks for, by the selector's type
navigate_reads(w, p) ==
  IF p = NullPtr THEN {}
  ELSE CASE deref(w, p).type = "1" -> {"net"}
         [] deref(w, p).type = "7" -> {"net", "line"}
         [] deref(w, p).type \in {"4", "5", "6", "9"} -> {"net", "line", "ub", "io"}
         [] deref(w, p).type \in {"i", "3"} -> {}
         [] OTHER -> {"net", "io"}

\* which answers of the environment the built-in func asks for
command_reads(func, w, line) ==
  CASE func = "cmd_open" ->
         navigate_reads(w, HeapPtr(parse_selector(next_token(w.variables, line).tok)))
    [] func = "cmd_save" -> {"net", "line", "ub", "io"}
    [] func = "cmd_back" ->
         IF Len(w.history) >= 2
         THEN navigate_reads([w EXCEPT !.history = Tail(@)], Ptr("history", 1))
         ELSE {}
    [] func = "cmd_history" ->
         navigate_reads(w, ListPtr("history", find_selector(w.history, line)))
    [] func = "cmd_bookmarks" ->
         navigate_reads(w, ListPtr("bookmarks", find_selector(w.bookmarks, line)))
    [] func \in {"cmd_set", "cmd_alias", "cmd_type"} -> {"ub"}
    [] OTHER -> {}

gopher_commands ==
  <<[name |-> <<"q", "u", "i", "t">>, func |-> "cmd_quit"],
     [name |-> <<"o", "p", "e", "n">>, func |-> "cmd_open"],
     [name |-> <<"s", "h", "o", "w">>, func |-> "cmd_show"],
     [name |-> <<"s", "a", "v", "e">>, func |-> "cmd_save"],
     [name |-> <<"b", "a", "c", "k">>, func |-> "cmd_back"],
     [name |-> <<"h", "e", "l", "p">>, func |-> "cmd_help"],
     [name |-> <<"h", "i", "s", "t", "o", "r", "y">>, func |-> "cmd_history"],
     [name |-> <<"b", "o", "o", "k", "m", "a", "r", "k", "s">>, func |-> "cmd_bookmarks"],
     [name |-> <<"s", "e", "t">>, func |-> "cmd_set"],
     [name |-> <<"s", "e", "e">>, func |-> "cmd_see"],
     [name |-> <<"a", "l", "i", "a", "s">>, func |-> "cmd_alias"],
     [name |-> <<"t", "y", "p", "e">>, func |-> "cmd_type"]>>

\* the loop of eval as it would be with strcmp in place of strcasecmp
find_command_exact(token) ==
  IF \E i \in 1..Len(gopher_commands) : gopher_commands[i].name = token
  THEN CHOOSE i \in 1..Len(gopher_commands) : gopher_commands[i].name = token
  ELSE 0

\* the loop over gopher_commands of eval: the position of the first entry
\* whose name equals token ignoring case, 0 when the loop ends at the NULL entry
find_command(token) ==
  IF \E i \in 1..Len(gopher_commands) : strcasecmp(gopher_commands[i].name, token) = 0
  THEN CHOOSE i \in 1..Len(gopher_commands) :
         /\ strcasecmp(gopher_commands[i].name, token) = 0
         /\ \A j \in 1..(i-1) : strcasecmp(gopher_commands[j].name, token) # 0
  ELSE 0

\* the ceiling of eval's static nesting counter
MaxNested == 10

(***************************************************************************)
(* The environment: what the user types, what the configuration files      *)
(* hold and what the servers answer.  A run is one of a few sessions, each *)
(* with its own small set of input lines.                                  *)
(***************************************************************************)
Sessions == {"nav", "alias", "lookup", "misc", "config", "store", "menu",
             "handler", "token", "share", "builtin",
             "long"}

\* a command line of LineSize characters before its line break: the last
\* of them, a 1, does not fit read_line's buffer
LongLine ==
  <<"h", "e", "l", "p", " ">> \o [i \in 1..(LineSize - 6) |-> "x"] \o <<"1", "\n">>

InputLines(s) ==
  CASE s = "nav" ->
   {<<"o", "p", "e", "n", " ", "h", "\n">>,
    <<"b", "a", "c", "k", "\n">>,
    <<"h", "i", "s", "t", "o", "r", "y", " ", "1", "\n">>,
    <<"h", "i", "s", "t", "o", "r", "y", " ", "2", "\n">>,
    <<"1", "\n">>,
    <<"2", "\n">>}
    [] s = "alias" ->
   {<<"a", "l", "i", "a", "s", " ", "a", " ", "a", "\n">>,
    <<"a", "l", "i", "a", "s", " ", "a", " ", "b", "\n">>,
    <<"a", "l", "i", "a", "s", " ", "b", " ", "A", "\n">>,
    <<"a", "l", "i", "a", "s", " ", "b", " ", "\"", "a", "l", "i", "a", "s", " ", "a", " ", "c", "\"", "\n">>,
    <<"a", "\n">>,
    <<"B", "\n">>,
    <<"c", "\n">>,
    <<"a", "l", "i", "a", "s", " ", "b", "a", "c", "k", " ", "q", "u", "i", "t", "\n">>,
    <<"B", "A", "C", "K", "\n">>,
    <<"O", "P", "E", "N", " ", "h", "\n">>}
    [] s = "lookup" ->
   {<<"s", "e", "t", " ", "x", "\n">>,
    <<"a", "l", "i", "a", "s", " ", "x", "\n">>,
    <<"t", "y", "p", "e", " ", "x", "\n">>,
    <<"s", "e", "t", " ", "x", " ", "1", "\n">>,
    <<"a", "l", "i", "a", "s", "\n">>,
    <<"s", "e", "t", " ", "$", "x", " ", "y", "\n">>}
    [] s = "misc" ->
   {<<"h", "e", "l", "p", "\n">>,
    <<"s", "h", "o", "w", "\n">>,
    <<"s", "e", "e", " ", "1", "\n">>,
    <<"s", "a", "v", "e", " ", "1", "\n">>,
    <<"s", "a", "v", "e", " ", "2", "\n">>,
    <<"t", "y", "p", "e", " ", "x", " ", "\"", "e", "c", "h", "o", " ", "%", "s", "\"", "\n">>,
    <<"b", "o", "o", "k", "m", "a", "r", "k", "s", "\n">>,
    <<"b", "o", "o", "k", "m", "a", "r", "k", "s", " ", "n", " ", "h", "/", "0", "t", "\n">>,
    <<"b", "o", "o", "k", "m", "a", "r", "k", "s", " ", "1", "\n">>,
    <<"q", "u", "i", "t", "\n">>,
    <<"o", "p", "e", "n", " ", "h", "\n">>,
    <<"3", "\n">>,
    <<" ", " ", "#", " ", "n", "o", "t", "e", "\n">>}
    [] s = "store" ->
   {<<"s", "e", "t", " ", "h", "o", "m", "e", "_", "h", "o", "l", "e", " ", "g", "\n">>,
    <<"s", "e", "t", " ", "H", "o", "m", "e", "_", "H", "o", "l", "e", "\n">>,
    <<"a", "l", "i", "a", "s", " ", "F", "o", "o", " ", "s", "h", "o", "w", "\n">>,
    <<"a", "l", "i", "a", "s", " ", "f", "o", "o", "\n">>,
    <<"t", "y", "p", "e", " ", "T", " ", "y", "\n">>,
    <<"t", "y", "p", "e", " ", "t", "\n">>,
    <<"o", "p", "e", "n", "\n">>}
    [] s = "menu" ->
   {<<"o", "p", "e", "n", " ", "h", "\n">>,
    <<"b", "o", "o", "k", "m", "a", "r", "k", "s", " ", "n", " ", "h", "\n">>}
    [] s = "handler" ->
   {<<"t", "y", "p", "e", " ", "0", " ", "c", "\n">>,
    <<"o", "p", "e", "n", " ", "h", "/", "0", "t", "\n">>,
    <<"t", "y", "p", "e", " ", "x", " ", "\"", "c", " ", "%", "f", " ", "%", "f", "\"", "\n">>,
    <<"o", "p", "e", "n", " ", "h", "/", "x", "p", "\n">>,
    <<"o", "p", "e", "n", " ", "h", "/", "y", "q", "\n">>}
    [] s = "token" ->
   {<<"s", "e", "t", " ", "v", " ", "\"", "a", " ", "#", " ", "$", "v", "\"", "\n">>,
    <<"s", "e", "t", " ", "q", " ", "a", "\"", "b", "\n">>,
    <<"s", "e", "t", " ", "r", " ", "$", "v", "\n">>,
    <<"s", "e", "t", " ", "r", " ", "$", "q", "\n">>,
    <<"s", "e", "t", " ", "r", " ", "$", "u", "\n">>}
    [] s = "share" ->
   {<<"s", "e", "t", " ", "g", " ", "h", "/", "0", "x", "\n">>,
    <<"b", "o", "o", "k", "m", "a", "r", "k", "s", " ", "$", "g", " ", "$", "g", "\n">>,
    <<"o", "p", "e", "n", " ", "$", "g", "\n">>,
    <<"b", "o", "o", "k", "m", "a", "r", "k", "s", " ", "1", " ", "g", "\n">>}
    [] s = "builtin" ->
   {<<"t", "y", "p", "e", " ", "1", " ", "c", "\n">>,
    <<"t", "y", "p", "e", " ", "9", " ", "c", "\n">>,
    <<"o", "p", "e", "n", " ", "h", "\n">>}
    [] s = "long" ->
   {<<"o", "p", "e", "n", " ", "h", "\n">>,
    LongLine}
    [] OTHER -> {<<"s", "h", "o", "w", "\n">>}

\* the responses a server may send
Responses(s) ==
  CASE s = "nav" ->
   {<<"1", "A", "\t", "/", "a", "\t", "h", "\t", "7", "0", "\r", "\n", ".", "\r", "\n">>,
    <<"i", "I", "\r", "\n", "7", "S", "\t", "/", "s", "\t", "g", "\t", "7", "0", "\n">>,
    <<".", "\r", "\n">>}
    [] s = "misc" ->
   {<<"0", "T", "\t", "/", "d", "/", "t", "\t", "h", "\t", "7", "0", "\n", "9", "B", "\t", "b", "\t", "h", "\t", "7", "0", "\n", "x", "X", "\t", "/", "x", "\t", "h", "\t", "7", "0", "\n">>}
    [] s = "menu" ->
   {<<"1", "A", "\t", "\t", "h", "\t", "7", "0", "\r", "\n", "1", "B", "\r", "\n",
      "i", "\t", "\t", "\t", "\r", "\n", ".", "\r", "\n">>,
    <<"1", "A", "\t", "/", "a", "\t", "h", "\t", "7", "0", "\r", "\n", "\r", "\n",
      "1", "B", "\t", "/", "b", "\t", "h", "\t", "7", "0", "\r", "\n">>,
    <<"3", "E", "\t", "\t", "e", "\n", ".", "x", "\t", "/", "x", "\t", "h", "\t", "7", "0", "\n",
      "1", "B", "\t", "/", "b", "\t", "h", "\t", "7", "0", "\t", "+", "\n">>}
    [] s = "builtin" ->
   {<<"i", "I", "\n", "9", "B", "\t", "/", "b", "\t", "h", "\t", "7", "0", "\n">>}
    [] s = "long" ->
   {<<"1", "A", "\t", "/", "a", "\t", "h", "\t", "7", "0", "\r", "\n", ".", "\r", "\n">>}
    [] OTHER -> {<<".", "\r", "\n">>}

\* a string of n characters c
Repeat(c, n) == [i \in 1..n |-> c]

\* a value that does not fit the buffer of set_var and print_selector
LongValue == Repeat("v", BufferSize)

\* the configuration files main may find: a file name and its content
ConfigFiles(s) ==
  IF s = "config"
  THEN {[name |-> <<"f">>, text |-> <<"s", "e", "t", " ", "x", " ", "1", "\n", "\n", "f", "o", "o", "\n">>],
        [name |-> <<"g">>, text |-> <<"#", " ", "c", "\r", "\n", "b", "a", "r", "\r", "\n">>],
        [name |-> <<"k">>, text |-> <<"\n", "b", "a", "z">>],
        [name |-> <<"m">>, text |-> <<"a", "l", "i", "a", "s", " ", "a", " ", "b", "\n", "\n", "\n", "a", "\n">>]}
  ELSE IF s = "store"
  THEN {[name |-> <<"l">>,
         text |-> <<"s", "e", "t", " ", "v", " ">> \o LongValue
                  \o <<"\n", "o", "p", "e", "n", " ", "$", "v", "\n">>]}
  ELSE {[name |-> <<"e">>, text |-> <<"#", "\n">>]}

\* the url argument of the command line, NULL when there is none
HomeHoles(s) ==
  CASE s = "nav" -> {NULL, <<"h">>}
    [] s = "store" -> {NULL, <<"h", ":">>}
    [] OTHER -> {NULL}

\* what a read_line inside a handler may read
StdinLines == {NULL, <<"\n">>, <<"q", "\n">>}

NetOutcomes(s) ==
  {[result |-> "noresolve", data |-> NULL], [result |-> "noconnect", data |-> NULL]}
  \cup {[result |-> "ok", data |-> r] : r \in Responses(s)}

\* the environments that differ in the answers named by reads: an answer a
\* handler never asks for is fixed, not enumerated
Env(s, reads) ==
  [net  : IF "net" \in reads THEN NetOutcomes(s)
          ELSE {[result |-> "noresolve", data |-> NULL]},
   line : IF "line" \in reads THEN StdinLines ELSE {NULL},
   ub   : IF "ub" \in reads THEN {"crash", "survive"} ELSE {"survive"},
   io   : IF "io" \in reads THEN BOOLEAN ELSE {TRUE}]

\* bounds of the exploration
MaxHistory == 3

MaxBookmarks == 2

MaxConfigs == 2

(***************************************************************************)
(* The state: the six global lists, eval's static nesting counter, the     *)
(* call stack of eval (one frame per active call, innermost first), where  *)
(* the process is, and the output of the current top-level input.          *)
(***************************************************************************)
VARIABLES variables, aliases, typehandlers, bookmarks, history, menu,
          nested, stack, pc, log, session, configs, stdin

vars == <<variables, aliases, typehandlers, bookmarks, history, menu,
          nested, stack, pc, log, session, configs, stdin>>

World ==
  [variables |-> variables, aliases |-> aliases, typehandlers |-> typehandlers,
   bookmarks |-> bookmarks, history |-> history, menu |-> menu,
   log |-> log, stdin |-> stdin, status |-> "run"]

\* the state at the start of a top-level input: nothing written yet
Fresh == [World EXCEPT !.log = <<>>]

Commit(w) ==
  /\ variables' = w.variables
  /\ aliases' = w.aliases
  /\ typehandlers' = w.typehandlers
  /\ bookmarks' = w.bookmarks
  /\ history' = w.history
  /\ menu' = w.menu
  /\ log' = w.log
  /\ stdin' = w.stdin

Init ==
  /\ session \in Sessions
  /\ variables = <<>>
  /\ aliases = <<>>
  /\ typehandlers = <<>>
  /\ bookmarks = <<>>
  /\ history = <<>>
  /\ menu = <<>>
  /\ nested = 0
  /\ stack = <<>>
  /\ pc = "main"
  /\ log = <<>>
  /\ configs = 0
  /\ stdin = <<>>

\* eval as it would be with the test nested > 10 in place of nested >= 10
eval_late(w, input, filename, caller, stk) ==
  IF nested > MaxNested
  THEN /\ Commit(error(w, "eval() nested too deeply", <<>>, 0))
       /\ nested' = nested
       /\ stack' = stk
       /\ pc' = IF stk = <<>> THEN caller ELSE "eval"
  ELSE /\ Commit(w)
       /\ nested' = nested + 1
       /\ stack' = <<[str |-> str_copy(input), filename |-> filename,
                      line_no |-> 1, caller |-> caller]>> \o stk
       /\ pc' = "eval"

\* eval as it would be if the counter were incremented before it is tested
eval_early(w, input, filename, caller, stk) ==
  IF nested + 1 >= MaxNested
  THEN /\ Commit(error(w, "eval() nested too deeply", <<>>, 0))
       /\ nested' = nested
       /\ stack' = stk
       /\ pc' = IF stk = <<>> THEN caller ELSE "eval"
  ELSE /\ Commit(w)
       /\ nested' = nested + 1
       /\ stack' = <<[str |-> str_copy(input), filename |-> filename,
                      line_no |-> 1, caller |-> caller]>> \o stk
       /\ pc' = "eval"

\* eval as it would be if the call rejected at the ceiling were counted too
eval_counts_rejected(w, input, filename, caller, stk) ==
  IF nested >= MaxNested
  THEN /\ Commit(error(w, "eval() nested too deeply", <<>>, 0))
       /\ nested' = nested + 1
       /\ stack' = stk
       /\ pc' = IF stk = <<>> THEN caller ELSE "eval"
  ELSE /\ Commit(w)
       /\ nested' = nested + 1
       /\ stack' = <<[str |-> str_copy(input), filename |-> filename,
                      line_no |-> 1, caller |-> caller]>> \o stk
       /\ pc' = "eval"

\* a call eval(input, filename) made with the state w, by caller ("main",
\* "shell" or "eval"), whose own frames are stk: either refused at the
\* ceiling, or a new frame that starts at line 1 of a copy of input
eval(w, input, filename, caller, stk) ==
  IF nested >= MaxNested
  THEN /\ Commit(error(w, "eval() nested too deeply", <<>>, 0))
       /\ nested' = nested
       /\ stack' = stk
       /\ pc' = IF stk = <<>> THEN caller ELSE "eval"
  ELSE /\ Commit(w)
       /\ nested' = nested + 1
       /\ stack' = <<[str |-> str_copy(input), filename |-> filename,
                      line_no |-> 1, caller |-> caller]>> \o stk
       /\ pc' = "eval"

\* load_config_file for a file that can be read
LoadConfig ==
  /\ pc = "main"
  /\ configs < MaxConfigs
  /\ \E f \in ConfigFiles(session) : eval(Fresh, f.text, f.name, "main", stack)
  /\ configs' = configs + 1
  /\ UNCHANGED session

HOME_HOLE == <<"H", "O", "M", "E", "_", "H", "O", "L", "E">>

\* parse_arguments, then the first statement of shell()
StartShell ==
  /\ pc = "main"
  /\ \E url \in HomeHoles(session) :
       eval([Fresh EXCEPT !.variables = set_var(@, HOME_HOLE, url).list],
            <<"o", "p", "e", "n", " ", "$">> \o HOME_HOLE, NULL, "shell", stack)
  /\ UNCHANGED <<session, configs>>

\* whether line, typed at the prompt, would add a bookmark
AddsBookmark(line) ==
  LET t == next_token(variables, line)
      n == next_token(variables, t.rest)
      u == next_token(variables, n.rest)
  IN /\ t.tok # NULL
     /\ find_command(t.tok) # 0
     /\ gopher_commands[find_command(t.tok)].func = "cmd_bookmarks"
     /\ u.tok # NULL

\* what the shell's read_line finds in stdin: the rest of a line that did
\* not fit the buffer, else any line the user may type
Typed == IF stdin # <<>> THEN {stdin} ELSE InputLines(session)

\* the state after the shell's read_line has read from input
Read(input) == [Fresh EXCEPT !.stdin = unread(input)]

\* the shell loop, for a line that is the index of a menu entry
ShellNavigate ==
  /\ pc = "shell"
  /\ \E input \in Typed :
       \E env \in Env(session, navigate_reads(World,
                        ListPtr("menu", find_selector(menu, read_line(input))))) :
       LET line == read_line(input)
           to == find_selector(menu, line)
           w2 == navigate(Read(input), ListPtr("menu", to), env)
       IN /\ to # 0
          /\ Len(w2.history) <= MaxHistory
          /\ Commit(w2)
          /\ pc' = IF w2.status = "run" THEN "shell" ELSE w2.status
  /\ UNCHANGED <<nested, stack, session, configs>>

\* the shell loop, for any other line
ShellEval ==
  /\ pc = "shell"
  /\ \E input \in Typed :
       LET line == read_line(input)
       IN /\ find_selector(menu, line) = 0
          /\ ~(AddsBookmark(line) /\ Len(bookmarks) >= MaxBookmarks)
          /\ eval(Read(input), line, NULL, "shell", stack)
  /\ UNCHANGED <<session, configs>>

\* read_line returns NULL: shell returns and main ends the process
ShellEOF ==
  /\ pc = "shell"
  /\ stdin = <<>>
  /\ pc' = "exit"
  /\ UNCHANGED <<variables, aliases, typehandlers, bookmarks, history, menu,
                 nested, stack, log, session, configs, stdin>>

(***************************************************************************)
(* One iteration of eval's loop over the lines of its text, in the         *)
(* innermost active call.                                                  *)
(***************************************************************************)
Frame == Head(stack)

CurLine == str_split(Frame.str, LineBreaks)

CurToken == next_token(variables, CurLine.tok)

\* the frame once the iteration is over: str_skip and ++line_no
Advanced ==
  <<[Frame EXCEPT !.str = str_skip(CurLine.rest, LineBreaks), !.line_no = @ + 1]>>
  \o Tail(stack)

\* the loop ends: --nested and return to the caller
EvalReturn ==
  /\ pc = "eval"
  /\ CurLine.tok = NULL
  /\ nested' = nested - 1
  /\ stack' = Tail(stack)
  /\ pc' = IF Tail(stack) = <<>> THEN Frame.caller ELSE "eval"
  /\ UNCHANGED <<variables, aliases, typehandlers, bookmarks, history, menu,
                 log, session, configs, stdin>>

\* EvalBlank as it would be if a line without a token were not consumed
EvalBlank_stuck ==
  /\ pc = "eval"
  /\ CurLine.tok # NULL
  /\ CurToken.tok = NULL
  /\ UNCHANGED vars

\* a line without a token: empty, blank or a comment
EvalBlank ==
  /\ pc = "eval"
  /\ CurLine.tok # NULL
  /\ CurToken.tok = NULL
  /\ stack' = Advanced
  /\ UNCHANGED <<variables, aliases, typehandlers, bookmarks, history, menu,
                 nested, pc, log, session, configs, stdin>>

\* the line's first token is the name of the built-in whose function is func
Dispatches(func) ==
  /\ pc = "eval"
  /\ CurLine.tok # NULL
  /\ CurToken.tok # NULL
  /\ find_command(CurToken.tok) # 0
  /\ gopher_commands[find_command(CurToken.tok)].func = func

\* the state cmd->func is called with
Called(func) == Out(World, "cmd", func, <<>>, 0)

\* the environments func may meet when called for the current line
Answers(func) == Env(session, command_reads(func, World, CurToken.rest))

\* cmd->func has returned, or has ended the process
Return(w) ==
  /\ Len(w.history) <= MaxHistory
  /\ Commit(w)
  /\ pc' = IF w.status = "run" THEN "eval" ELSE w.status
  /\ stack' = IF w.status = "run" THEN Advanced ELSE stack
  /\ UNCHANGED <<nested, session, configs>>

CmdQuit ==
  /\ Dispatches("cmd_quit")
  /\ \E env \in Answers("cmd_quit") : Return(cmd_quit(Called("cmd_quit"), CurToken.rest, env))

CmdOpen ==
  /\ Dispatches("cmd_open")
  /\ \E env \in Answers("cmd_open") : Return(cmd_open(Called("cmd_open"), CurToken.rest, env))

CmdShow ==
  /\ Dispatches("cmd_show")
  /\ \E env \in Answers("cmd_show") : Return(cmd_show(Called("cmd_show"), CurToken.rest, env))

CmdSave ==
  /\ Dispatches("cmd_save")
  /\ \E env \in Answers("cmd_save") : Return(cmd_save(Called("cmd_save"), CurToken.rest, env))

CmdBack ==
  /\ Dispatches("cmd_back")
  /\ \E env \in Answers("cmd_back") : Return(cmd_back(Called("cmd_back"), CurToken.rest, env))

CmdHelp ==
  /\ Dispatches("cmd_help")
  /\ \E env \in Answers("cmd_help") : Return(cmd_help(Called("cmd_help"), CurToken.rest, env))

CmdHistory ==
  /\ Dispatches("cmd_history")
  /\ \E env \in Answers("cmd_history") : Return(cmd_history(Called("cmd_history"), CurToken.rest, env))

CmdBookmarks ==
  /\ Dispatches("cmd_bookmarks")
  /\ \E env \in Answers("cmd_bookmarks") : Return(cmd_bookmarks(Called("cmd_bookmarks"), CurToken.rest, env))

CmdSet ==
  /\ Dispatches("cmd_set")
  /\ \E env \in Answers("cmd_set") : Return(cmd_set(Called("cmd_set"), CurToken.rest, env))

CmdSee ==
  /\ Dispatches("cmd_see")
  /\ \E env \in Answers("cmd_see") : Return(cmd_see(Called("cmd_see"), CurToken.rest, env))

CmdAlias ==
  /\ Dispatches("cmd_alias")
  /\ \E env \in Answers("cmd_alias") : Return(cmd_alias(Called("cmd_alias"), CurToken.rest, env))

CmdType ==
  /\ Dispatches("cmd_type")
  /\ \E env \in Answers("cmd_type") : Return(cmd_type(Called("cmd_type"), CurToken.rest, env))

\* no built-in has the token's name
NoBuiltin ==
  /\ pc = "eval"
  /\ CurLine.tok # NULL
  /\ CurToken.tok # NULL
  /\ find_command(CurToken.tok) = 0

\* the token names an alias: eval its text, labelled with the token
EvalAlias ==
  /\ NoBuiltin
  /\ LET alias == set_var(aliases, CurToken.tok, NULL).ret
     IN /\ alias # NULL
        /\ eval(Out(World, "alias", "", <<CurToken.tok>>, 0), alias, CurToken.tok,
                "eval", Advanced)
  /\ UNCHANGED <<session, configs>>

EvalUnknown ==
  /\ NoBuiltin
  /\ set_var(aliases, CurToken.tok, NULL).ret = NULL
  /\ Commit(error(World, "unknown command", <<CurToken.tok, Frame.filename>>,
                  IF Frame.filename = NULL THEN 0 ELSE Frame.line_no))
  /\ stack' = Advanced
  /\ UNCHANGED <<nested, pc, session, configs>>

\* the steps of a running eval
EvalStep ==
  \/ EvalReturn \/ EvalBlank \/ EvalAlias \/ EvalUnknown
  \/ CmdQuit \/ CmdOpen \/ CmdShow \/ CmdSave \/ CmdBack \/ CmdHelp
  \/ CmdHistory \/ CmdBookmarks \/ CmdSet \/ CmdSee \/ CmdAlias \/ CmdType

Next ==
  \/ LoadConfig \/ StartShell \/ ShellNavigate \/ ShellEval \/ ShellEOF
  \/ EvalStep

Spec == Init /\ [][Next]_vars

\* the running eval stands at a line without a token
BlankLine == pc = "eval" /\ CurLine.tok # NULL /\ CurToken.tok = NULL

\* A step of the running eval can be taken.  The guards of the disjuncts of
\* EvalStep cover every line, and every step on a line with a token or at
\* the end of the text changes the log, the stack or pc.
StepPossible ==
  /\ pc = "eval"
  /\ BlankLine => ENABLED <<EvalBlank>>_vars

\* The process keeps running: an eval that can take a step takes it.  This is
\* WF_vars(EvalStep) with ENABLED <<EvalStep>>_vars written as StepPossible.
LiveSpec == Spec /\ ([]<>~StepPossible \/ []<><<EvalStep>>_vars)

(***************************************************************************)
(* Properties                                                              *)
(***************************************************************************)
IsError(e, msg) == e.ev = "error" /\ e.what = msg

FetchError(e) ==
  IsError(e, "cannot resolve hostname") \/ IsError(e, "cannot connect to")

\* the locators open may be given, beside those of the input lines
Locators == {<<"h">>, <<"g", "/", "7", "s">>}

\* every selector pointer navigate may be called with in the current state
Targets ==
  {Ptr("menu", i) : i \in 1..Len(menu)}
  \cup {Ptr("history", i) : i \in 1..Len(history)}
  \cup {Ptr("bookmarks", i) : i \in 1..Len(bookmarks)}
  \cup {HeapPtr(parse_selector(u)) : u \in Locators}

MenuTargets == {p \in Targets : deref(World, p).type \in {"1", "7"}}

FailingEnv == {env \in Env(session, {"net", "line"}) : env.net.result # "ok"}

SucceedingEnv == {env \in Env(session, {"net", "line"}) : env.net.result = "ok"}

\* C1: navigate on a selector of type '1' or '7' whose fetch fails (host not
\* resolved or no connection) leaves menu and history as they were before
\* the call, reports an error, and the process goes on to the next input.
C1_FailedFetchKeepsMenuAndHistory ==
  \A p \in MenuTargets : \A env \in FailingEnv :
    LET w == navigate(Fresh, p, env)
    IN /\ w.menu = menu
       /\ w.history = history
       /\ w.log # <<>> /\ FetchError(w.log[Len(w.log)])
       /\ w.status = "run"

\* a failed fetch has happened with a menu on display, and the shell is at
\* its prompt again
C1_Witness ==
  /\ pc = "shell"
  /\ menu # <<>>
  /\ history # <<>>
  /\ log # <<>> /\ FetchError(log[Len(log)])

\* C2: whenever the fetch for a type '1' or '7' selector succeeds, menu is
\* afterwards exactly the list decoded from the response, also when the
\* response decodes to zero entries.
C2_SuccessReplacesMenu ==
  \A p \in MenuTargets : \A env \in SucceedingEnv :
    navigate(Fresh, p, env).menu = parse_selector_list(env.net.data)

SameResource(a, b) ==
  a.type = b.type /\ a.host = b.host /\ a.port = b.port /\ a.path = b.path

\* C3: on a successful descent, history is unchanged when the selector has
\* the type, host, port and path of the history head, and otherwise one
\* copy of the selector is prepended to history.
C3_HistoryPushOnDescent ==
  \A p \in MenuTargets : \A env \in SucceedingEnv :
    LET to == deref(World, p)
        w == navigate(Fresh, p, env)
    IN IF history # <<>> /\ SameResource(to, history[1])
       THEN w.history = history
       ELSE /\ Len(w.history) = Len(history) + 1
            /\ Tail(w.history) = history
            /\ SameResource(w.history[1], to)
            /\ w.history[1].name = to.name

\* C4: a back command whose fetch of the previous history entry fails leaves
\* menu and history as they were before the command.
C4_FailedBackKeepsHistory ==
  [][(Dispatches("cmd_back") /\ log' # <<>> /\ FetchError(log'[Len(log')]))
       => (menu' = menu /\ history' = history)]_vars

NestedError == Ev("error", "eval() nested too deeply", <<>>, 0)

\* eval's loop is about to call eval for an alias while the counter is at
\* its ceiling
CallAtCeiling ==
  /\ NoBuiltin
  /\ set_var(aliases, CurToken.tok, NULL).ret # NULL
  /\ nested = MaxNested

\* C5: the nesting counter never exceeds 10, and a call of eval made while
\* it is at 10 runs no command of its text, changes no store, menu, history
\* or bookmarks, and only reports the nesting error.
C5_NestingCeiling ==
  [][/\ nested' <= 10
     /\ CallAtCeiling =>
          /\ <<variables, aliases, typehandlers, menu, history, bookmarks>>' =
             <<variables, aliases, typehandlers, menu, history, bookmarks>>
          /\ nested' = nested
          /\ Len(stack') = Len(stack)
          /\ log' = log \o <<Ev("alias", "", <<CurToken.tok>>, 0), NestedError>>]_vars

\* a call has been refused at the ceiling
C5_Witness ==
  /\ nested = 10
  /\ log # <<>> /\ log[Len(log)] = NestedError

AliasA == <<"a">>

\* the line `a` is being evaluated while alias a is defined as a
RunsSelfAlias ==
  /\ pc = "eval"
  /\ set_var(aliases, AliasA, NULL).ret = AliasA
  /\ log # <<>> /\ log[1] = Ev("alias", "", <<AliasA>>, 0)

\* ten expansions of a were attempted, the tenth raised the only nesting
\* error, and nothing came after it
TenthExpansionRefused ==
  /\ Len(log) = 11
  /\ \A i \in 1..10 : log[i] = Ev("alias", "", <<AliasA>>, 0)
  /\ log[11] = NestedError

\* C6: with alias a defined as a, evaluating the line a terminates, and the
\* nesting error is raised exactly once, when the 10th recursive expansion
\* is attempted; no expansion happens after the error.
C6_SelfAliasStopsAtTenth ==
  /\ RunsSelfAlias ~> (pc = "shell" /\ TenthExpansionRefused)
  /\ [][RunsSelfAlias /\ NestedError \in {log[i] : i \in 1..Len(log)} => log' = log]_vars

C6_Witness ==
  /\ pc = "shell"
  /\ set_var(aliases, AliasA, NULL).ret = AliasA
  /\ TenthExpansionRefused

\* C7: every eval terminates, whatever the text and the alias store hold,
\* each built-in being one terminating step.
C7_EvalTerminates == (pc = "eval") ~> (pc # "eval")

\* an evaluation through mutually recursive aliases has ended at the prompt
C7_Witness ==
  /\ pc = "shell"
  /\ \E i, j \in 1..Len(log) :
       /\ log[i].ev = "alias" /\ log[j].ev = "alias" /\ log[i].args # log[j].args
  /\ log[Len(log)] = NestedError

\* token equals name in some letter case
EqualInSomeCase(token, name) ==
  /\ Len(token) = Len(name)
  /\ \A i \in 1..Len(name) : token[i] = name[i] \/ tolower(token[i]) = name[i]

\* C8: a line whose first token is a built-in's name in any letter case runs
\* that built-in, and no alias of that name is expanded.
C8_BuiltinBeforeAlias ==
  [][\A i \in 1..Len(gopher_commands) :
       (/\ pc = "eval"
        /\ CurLine.tok # NULL
        /\ CurToken.tok # NULL
        /\ EqualInSomeCase(CurToken.tok, gopher_commands[i].name))
       => /\ Len(log') > Len(log)
          /\ log'[Len(log) + 1] = Ev("cmd", gopher_commands[i].func, <<>>, 0)
          /\ \A k \in (Len(log) + 1)..Len(log') : log'[k].ev # "alias"
          /\ nested' = nested]_vars

\* BACK in upper case ran the built-in while an alias back was defined
C8_Witness ==
  /\ pc = "eval"
  /\ find_var(aliases, <<"b", "a", "c", "k">>) # 0
  /\ log = <<Ev("cmd", "cmd_back", <<>>, 0), Ev("error", "history empty", <<>>, 0)>>
  /\ Frame.filename = NULL

\* the lines of text, a line ending at "\n" or at the end of the text
RECURSIVE TextLines(_)
TextLines(text) ==
  IF text = <<>> THEN <<>>
  ELSE LET k == strcspn(text, {"\n"})
       IN <<SubSeq(text, 1, k - 1)>>
          \o (IF k < Len(text) THEN TextLines(SubSeq(text, k + 1, Len(text))) ELSE <<>>)

\* the 1-based positions of the lines of text whose first token is token
LinesWithToken(text, token) ==
  {n \in 1..Len(TextLines(text)) :
     next_token(<<>>, str_skip(TextLines(text)[n], {"\r"})).tok = token}

\* C9: an unknown command in a multi-line text with a label is reported with
\* the token, the label and the 1-based position of its line in the text,
\* blank and comment lines counted.
C9_UnknownCommandLineNumber ==
  \A i \in 1..Len(log) : \A f \in ConfigFiles(session) :
    (IsError(log[i], "unknown command") /\ log[i].args[2] = f.name)
    => log[i].num \in LinesWithToken(f.text, log[i].args[1])

\* the line is the built-in func with one argument that names no entry of store
LooksUpMissing(func, store) ==
  /\ Dispatches(func)
  /\ LET name == next_token(variables, CurToken.rest)
     IN /\ name.tok # NULL
        /\ next_token(variables, name.rest).tok = NULL
        /\ find_var(store, name.tok) = 0

\* C10: set NAME, alias NAME or type NAME with one argument that names no
\* entry completes normally: no store changes, the process goes on and the
\* next line is evaluated.
C10_LookupOfMissingNameCompletes ==
  [][(\/ LooksUpMissing("cmd_set", variables)
      \/ LooksUpMissing("cmd_alias", aliases)
      \/ LooksUpMissing("cmd_type", typehandlers))
     => /\ <<variables, aliases, typehandlers>>' = <<variables, aliases, typehandlers>>
        /\ pc' = "eval"
        /\ stack' = Advanced]_vars

\* names and values the stores are probed with
StoreNames ==
  {<<"F", "o", "o">>, <<"f", "O", "O">>, <<"t">>, <<"v">>,
   <<"h", "o", "m", "e", "_", "h", "o", "l", "e">>}

StoreValues == {<<"1">>, <<"s", "h", "o", "w">>, LongValue}

\* C11: in each store, setting N to V and then looking up a name equal to N
\* ignoring case returns V; setting an existing name replaces its value in
\* place; a lookup returns the value written last.
C11_SetThenGet ==
  \A store \in {variables, aliases, typehandlers} :
    \A N \in StoreNames : \A V \in StoreValues :
      LET s1 == set_var(store, N, V).list
          k == find_var(store, N)
      IN /\ \A M \in StoreNames :
              strcasecmp(M, N) = 0 => set_var(s1, M, NULL).ret = V
         /\ k # 0 => /\ Len(s1) = Len(store)
                      /\ s1[k].name = store[k].name
                      /\ \A i \in 1..Len(store) : i # k => s1[i] = store[i]
         /\ \A W \in StoreValues :
              set_var(set_var(s1, N, W).list, N, NULL).ret = W

NoDuplicateNames(list) ==
  \A i, j \in 1..Len(list) :
    i # j => strcasecmp(list[i].name, list[j].name) # 0

\* C12: after any sequence of set, alias and type commands and internal
\* sets, no store has two entries whose names are equal ignoring case.
C12_NoDuplicateNames ==
  /\ NoDuplicateNames(variables)
  /\ NoDuplicateNames(aliases)
  /\ NoDuplicateNames(typehandlers)

\* the entry made by the internal set of HOME_HOLE was set again under the
\* name home_hole
C12_Witness ==
  /\ Len(variables) = 1
  /\ variables[1].name = HOME_HOLE
  /\ variables[1].data = <<"g">>

\* the line is the built-in func with exactly one argument
LooksUpName(func) ==
  /\ Dispatches(func)
  /\ LET name == next_token(variables, CurToken.rest)
     IN /\ name.tok # NULL
        /\ next_token(variables, name.rest).tok = NULL

\* C13: a lookup (set_var with a null value) never mutates the store, whether
\* or not the name exists: as a function on every store reached, and in the
\* steps that look a name up (set/alias/type NAME, the alias lookup of eval).
C13_LookupNeverMutates ==
  [][/\ \A N \in StoreNames :
          /\ set_var(variables', N, NULL).list = variables'
          /\ set_var(aliases', N, NULL).list = aliases'
          /\ set_var(typehandlers', N, NULL).list = typehandlers'
     /\ (LooksUpName("cmd_set") \/ LooksUpName("cmd_alias") \/ LooksUpName("cmd_type"))
          => <<variables, aliases, typehandlers>>' = <<variables, aliases, typehandlers>>
     /\ NoBuiltin => aliases' = aliases]_vars

\* set Home_Hole has printed the value stored under HOME_HOLE
C13_Witness ==
  /\ variables # <<>>
  /\ variables[1].name = HOME_HOLE
  /\ Len(log) = 2
  /\ log[1] = Ev("cmd", "cmd_set", <<>>, 0)
  /\ log[2] = Ev("puts", "", <<variables[1].data>>, 0)

\* locators of every form of the grammar [gopher://]host[:port][/<type><path>]
LocatorInputs ==
  {<<"h">>, <<"h", ":">>, <<"h", ":", "/", "1", "p">>, <<"h", "/", "0", "x">>,
   <<"h", ":", "7", "1">>, <<"h", ":", "7", "/">>, GopherPrefix \o <<"g", "/", "7", "s">>,
   GopherPrefix \o <<"h", ":", "7", "1", "/", "0", "/", "a", ":", "b">>,
   LongValue}

SameSelector(a, b) ==
  /\ a.type = b.type /\ a.name = b.name
  /\ a.host = b.host /\ a.port = b.port /\ a.path = b.path

\* the argument of the open command of the current line
OpenArgument == next_token(variables, CurToken.rest).tok

\* the canonical locator of L parses to the selector L parses to, and is
\* its own canonical locator
RoundTrips(L) ==
  LET sel == parse_selector(L)
      C == print_selector(sel, TRUE)
  IN /\ SameSelector(parse_selector(C), sel)
     /\ print_selector(parse_selector(C), TRUE) = C

\* C14: for every non-empty locator L of the grammar, the canonical locator
\* C = print(parse(L), with prefix) parses to a selector equal to parse(L)
\* in type, name, host, port and path, and print(parse(C)) = C.
C14_PrintParseRoundTrip ==
  [][/\ \A L \in LocatorInputs : RoundTrips(L)
     /\ (Dispatches("cmd_open") /\ OpenArgument \notin {NULL, <<>>})
          => RoundTrips(OpenArgument)]_vars

\* locators that give no port
PortlessLocators ==
  {<<"h">>, <<"h", "/", "0", "x">>, <<"h", ":">>, <<"h", ":", "/", "1", "p">>,
   GopherPrefix \o <<"h", ":">>}

\* C15: for every accepted locator that gives no port the parsed selector's
\* port is "70", also when ':' is followed by an empty port; an open of such
\* a locator connects to port 70.
C15_DefaultPort ==
  [][/\ \A L \in PortlessLocators : parse_selector(L).port = DefaultPort
     /\ (Dispatches("cmd_open") /\ OpenArgument \in PortlessLocators)
          => \A i \in (Len(log) + 1)..Len(log') :
               IsError(log'[i], "cannot connect to") => log'[i].args[2] = DefaultPort]_vars

\* the line is open without an argument, or with one that is the empty string
OpensNothing ==
  /\ Dispatches("cmd_open")
  /\ OpenArgument \in {NULL, <<>>}

\* C16: an empty or absent locator parses to no selector, and open with no
\* argument or an argument that substitutes to the empty string fetches
\* nothing and leaves menu, history and bookmarks unchanged.
C16_EmptyLocatorOpensNothing ==
  [][/\ parse_selector(NULL) = NoSelector
     /\ parse_selector(<<>>) = NoSelector
     /\ OpensNothing =>
          /\ <<menu, history, bookmarks>>' = <<menu, history, bookmarks>>
          /\ log' = Append(log, Ev("cmd", "cmd_open", <<>>, 0))]_vars

\* the shell has started with HOME_HOLE unset: its open $HOME_HOLE is done
\* and nothing was fetched
C16_Witness ==
  /\ pc = "shell"
  /\ find_var(variables, HOME_HOLE) = 0
  /\ log = <<Ev("cmd", "cmd_open", <<>>, 0)>>
  /\ menu = <<>> /\ history = <<>>

\* the lines of a response: a line ends at LF or CRLF
ResponseLines(r) ==
  [i \in 1..Len(TextLines(r)) |->
     LET l == TextLines(r)[i]
     IN IF l # <<>> /\ l[Len(l)] = "\r" THEN SubSeq(l, 1, Len(l) - 1) ELSE l]

\* the lines before the terminator: the first line that is empty or exactly "."
LinesBeforeTerminator(r) ==
  LET lines == ResponseLines(r)
      IsEnd(i) == lines[i] = <<>> \/ lines[i] = <<".">>
  IN IF \E i \in 1..Len(lines) : IsEnd(i)
     THEN SubSeq(lines, 1, (CHOOSE i \in 1..Len(lines) :
                              IsEnd(i) /\ \A j \in 1..(i-1) : ~IsEnd(j)) - 1)
     ELSE lines

\* the tab-separated fields of s
RECURSIVE Fields(_)
Fields(s) ==
  IF \E i \in 1..Len(s) : s[i] = "\t"
  THEN LET k == strcspn(s, {"\t"})
       IN <<SubSeq(s, 1, k - 1)>> \o Fields(SubSeq(s, k + 1, Len(s)))
  ELSE <<s>>

\* the n-th field of the rest of line after its type character, empty if
\* the line has fewer fields
Field(line, n) ==
  LET f == Fields(Tail(line))
  IN IF n <= Len(f) THEN f[n] ELSE <<>>

\* C17: every response line before the terminator yields one entry whose
\* type is the line's first character and whose name, path, host and port
\* are the 1st to 4th tab-separated fields of the rest, kept exactly; a
\* missing trailing field is the empty string.
C17_FieldsInOrder ==
  \A r \in Responses(session) :
    LET lines == LinesBeforeTerminator(r)
        list == parse_selector_list(r)
    IN \A i \in 1..Len(lines) :
         /\ i <= Len(list)
         /\ list[i].type = lines[i][1]
         /\ list[i].name = Field(lines[i], 1)
         /\ list[i].path = Field(lines[i], 2)
         /\ list[i].host = Field(lines[i], 3)
         /\ list[i].port = Field(lines[i], 4)

\* the number of lines of r before its first empty line
LinesBeforeEmptyLine(r) ==
  LET lines == ResponseLines(r)
  IN IF \E i \in 1..Len(lines) : lines[i] = <<>>
     THEN (CHOOSE i \in 1..Len(lines) :
             lines[i] = <<>> /\ \A j \in 1..(i-1) : lines[j] # <<>>) - 1
     ELSE Len(lines)

\* C18: decoding stops at the first empty line of the response: no line that
\* follows an empty line contributes an entry.
C18_StopsAtEmptyLine ==
  \A r \in Responses(session) :
    Len(parse_selector_list(r)) <= LinesBeforeEmptyLine(r)

\* C19: only a line that is exactly "." ends the menu: a line that begins
\* with '.' and has further characters is decoded as an entry of type '.',
\* and the lines after it are decoded too.
C19_OnlyLoneDotTerminates ==
  \A r \in Responses(session) :
    LET lines == LinesBeforeTerminator(r)
        list == parse_selector_list(r)
    IN \A i \in 1..Len(lines) :
         (\E k \in 1..i : lines[k][1] = "." /\ Len(lines[k]) > 1)
         => (i <= Len(list) /\ list[i].type = lines[i][1])

IsNonEmpty(l) == l # <<>>

\* the lines of r that are not empty, in their order
NonEmptyLines(r) == SelectSeq(ResponseLines(r), IsNonEmpty)

IndexedFromOne(list) == \A i \in 1..Len(list) : list[i].index = i

\* C20: appending N selectors one at a time to an empty list gives N entries
\* in insertion order with the indices 1..N: in every decoded menu
\* (informational and error entries included) and in the bookmarks.
C20_AppendIndices ==
  /\ IndexedFromOne(menu)
  /\ IndexedFromOne(bookmarks)
  /\ \A r \in Responses(session) :
       LET list == parse_selector_list(r)
       IN /\ IndexedFromOne(list)
          /\ \A i \in 1..Len(list) : list[i].type = NonEmptyLines(r)[i][1]

\* a menu of three entries, the third informational, is on display and two
\* bookmarks were added
C20_Witness ==
  /\ Len(menu) = 3
  /\ menu[3].type = "i" /\ menu[3].index = 3
  /\ Len(bookmarks) = 2
  /\ bookmarks[2].index = 2

(***************************************************************************)
(* C21: prepend_selector gives the new head the index of the old head plus *)
(* one (src/delve.c 1151-1155).                                            *)
(***************************************************************************)
\* the three selector lists of the process
SelectorLists == {menu, bookmarks, history}

\* the selectors a command may hand to prepend_selector
Prepended == {copy_selector(deref(World, p)) : p \in Targets}

\* C21 as stated: prepending to a list of size N gives the new head the index
\* N+1 for every list append_selector and prepend_selector can build, the
\* lists built by appends alone (menu, bookmarks) included
C21_PrependIndexAnyList ==
  \A list \in SelectorLists : \A sel \in Prepended :
    prepend_selector(list, sel)[1].index = Len(list) + 1

\* C21, amended: prepending to a list built by prepend_selector alone, as
\* history is, gives the new head the index N+1 where N is the size of the
\* list; prepending to any list gives the new head the index of the old
\* head plus one, which for a non-empty list built by appends is 2
C21_PrependIndex ==
  /\ \A i \in 1..Len(history) : history[i].index = Len(history) - i + 1
  /\ \A sel \in Prepended :
       prepend_selector(history, sel)[1].index = Len(history) + 1
  /\ \A list \in SelectorLists : \A sel \in Prepended :
       /\ list = <<>> => prepend_selector(list, sel)[1].index = 1
       /\ list # <<>> => prepend_selector(list, sel)[1].index = list[1].index + 1
  /\ \A list \in {menu, bookmarks} : \A sel \in Prepended :
       list # <<>> => prepend_selector(list, sel)[1].index = 2

\* history holds two prepended entries and the menu two appended ones
C21_Witness ==
  /\ Len(history) >= 2
  /\ Len(menu) >= 2
  /\ pc = "shell"

(***************************************************************************)
(* C22: navigate ignores informational and error entries (src/delve.c      *)
(* 1509-1510).                                                             *)
(***************************************************************************)
\* the selectors navigate may be called with that have type 'i' or '3'
IgnoredTargets == {p \in Targets : deref(World, p).type \in {"i", "3"}}

\* C22: navigate on a selector of type 'i' or '3' makes no fetch and writes
\* nothing, and leaves menu, history, bookmarks and the three variable
\* stores as they are, whatever the network, the terminal and the file
\* system would answer
C22_InfoAndErrorIgnored ==
  \A p \in IgnoredTargets :
    \A env \in Env(session, {"net", "line", "ub", "io"}) :
      LET w == navigate(Fresh, p, env)
      IN /\ w.log = <<>>
         /\ w.status = "run"
         /\ w.menu = menu /\ w.history = history /\ w.bookmarks = bookmarks
         /\ w.variables = variables /\ w.aliases = aliases
         /\ w.typehandlers = typehandlers

\* the informational first entry of the menu was selected at the prompt
C22_Witness ==
  /\ session = "nav"
  /\ pc = "shell"
  /\ log = <<>>
  /\ menu # <<>> /\ menu[1].type = "i"
  /\ Ptr("menu", 1) \in IgnoredTargets

(***************************************************************************)
(* C23: what navigate does with a text selector (src/delve.c 1511-1521).   *)
(***************************************************************************)
\* the events of kind in a log
EventsOf(l, kind) == {i \in 1..Len(l) : l[i].ev = kind}

\* the type '0' selectors navigate may be called with
TextTargets ==
  {p \in Targets \cup {HeapPtr(parse_selector(<<"h", "/", "0", "t">>))} :
     deref(World, p).type = "0"}

\* navigate rendered the response itself: one fetch, then print_text
RendersInternally(w, to) ==
  /\ EventsOf(w.log, "system") = {}
  /\ w.log # <<>> /\ w.log[Len(w.log)].ev = "print_text"
  /\ \/ FetchError(w.log[1]) /\ w.log[Len(w.log)].args = <<NULL>>
     \/ /\ w.log[1].ev = "send"
        /\ w.log[1].args[1] = snprintf(to.path \o <<"\r", "\n">>)

\* C23 as stated: navigate on a type '0' selector fetches the bytes and
\* renders them with the internal text renderer for every content of the
\* type-handler store; no external command is run
C23_TextAlwaysInternal ==
  \A p \in TextTargets : \A env \in Env(session, {"net", "io"}) :
    RendersInternally(navigate(Fresh, p, env), deref(World, p))

\* C23, amended: navigate on a type '0' selector renders the fetched bytes
\* with the internal text renderer when no type handler is registered for
\* '0'; when one is registered its command is run instead and nothing is
\* rendered internally
C23_TextInternalUnlessHandler ==
  \A p \in TextTargets : \A env \in Env(session, {"net", "io"}) :
    LET to == deref(World, p)
        w == navigate(Fresh, p, env)
        handler == find_selector_handler(World, "0")
    IN /\ handler = NULL => RendersInternally(w, to)
       /\ handler # NULL =>
            /\ w = execute_handler(Fresh, handler, to, env)
            /\ EventsOf(w.log, "print_text") = {}
            /\ handler_command(handler, to, <<>>).files = 0 =>
                 w.log = <<Ev("system", "", <<handler_command(handler, to, <<>>).command>>, 0)>>

\* `open h/0t` was answered by the command registered for type '0'
C23_Witness ==
  /\ session = "handler"
  /\ find_selector_handler(World, "0") # NULL
  /\ EventsOf(log, "cmd") # {} /\ log[1].what = "cmd_open"
  /\ EventsOf(log, "system") # {}
  /\ EventsOf(log, "print_text") = {}

(***************************************************************************)
(* C24: the default branch of navigate (src/delve.c 1511-1521,             *)
(* find_selector_handler 1428-1431).                                       *)
(***************************************************************************)
\* the types navigate has a built-in action for
BuiltinTypes == {"0", "1", "3", "4", "5", "6", "7", "9", "i"}

\* the selectors of any other type navigate may be called with
HandledTargets ==
  {p \in Targets \cup {HeapPtr(parse_selector(<<"h", "/", "x", "p">>)),
                       HeapPtr(parse_selector(<<"h", "/", "y", "q">>))} :
     deref(World, p).type \notin BuiltinTypes}

\* the command the type-handler store holds for type, NULL when none
Registered(type) == set_var(typehandlers, <<type>>, NULL).ret

\* the download to the temporary file failed
TempFileFailed(l) ==
  l # <<>> /\ (FetchError(l[1]) \/ EventsOf(l, "tempfile") = {})

\* C24: for a selector whose type is none of 0,1,3,4,5,6,7,9,i navigate runs
\* the command of the handler registered for the type when there is one
\* (unless the download its %f asks for fails), and reports 'no handler for
\* type' when there is none; menu, history and bookmarks stay as they are
C24_HandlerOrError ==
  \A p \in HandledTargets : \A env \in Env(session, {"net", "io"}) :
    LET to == deref(World, p)
        w == navigate(Fresh, p, env)
        handler == Registered(to.type)
        c == handler_command(handler, to, <<>>)
    IN /\ w.menu = menu /\ w.history = history /\ w.bookmarks = bookmarks
       /\ w.status = "run"
       /\ handler = NULL =>
            w.log = <<Ev("error", "no handler for type", <<<<to.type>>>>, 0)>>
       /\ handler # NULL =>
            /\ \A i \in 1..Len(w.log) : ~IsError(w.log[i], "no handler for type")
            /\ c.files = 0 => w.log = <<Ev("system", "", <<c.command>>, 0)>>
            /\ c.files > 0 =>
                 \/ TempFileFailed(w.log) /\ EventsOf(w.log, "system") = {}
                 \/ \E i \in EventsOf(w.log, "system") : w.log[i].args = <<c.command>>

\* `open h/xp` ran the command registered for type 'x'
C24_Witness ==
  /\ session = "handler"
  /\ log # <<>> /\ log[1].what = "cmd_open"
  /\ Registered("x") # NULL
  /\ \E i \in EventsOf(log, "system") :
       log[i].args = <<handler_command(Registered("x"),
                                       parse_selector(<<"h", "/", "x", "p">>), <<>>).command>>

\* `open h/yq` found no handler for type 'y'
C24_WitnessNoHandler ==
  /\ session = "handler"
  /\ log # <<>> /\ log[1].what = "cmd_open"
  /\ IsError(log[Len(log)], "no handler for type")
  /\ log[Len(log)].args = <<<<"y">>>>

(***************************************************************************)
(* C25: the temporary file of execute_handler (src/delve.c 1459-1486,      *)
(* download_to_temp 1360-1389).                                            *)
(***************************************************************************)
\* handler with every %f replaced by file and the other formats by the
\* fields of the selector to
RECURSIVE Expand(_, _, _)
Expand(handler, to, file) ==
  IF handler = <<>> THEN <<>>
  ELSE IF handler[1] = "%" /\ Len(handler) >= 2
  THEN (CASE handler[2] = "f" -> file
          [] handler[2] = "%" -> <<"%">>
          [] handler[2] = "h" -> to.host
          [] handler[2] = "p" -> to.port
          [] handler[2] = "s" -> to.path
          [] handler[2] = "n" -> to.name
          [] OTHER -> <<>>) \o Expand(SubSeq(handler, 3, Len(handler)), to, file)
  ELSE <<handler[1]>> \o Expand(Tail(handler), to, file)

\* how often %f occurs in handler
RECURSIVE CountFiles(_)
CountFiles(handler) ==
  IF Len(handler) < 2 THEN 0
  ELSE IF handler[1] = "%"
  THEN (IF handler[2] = "f" THEN 1 ELSE 0) + CountFiles(SubSeq(handler, 3, Len(handler)))
  ELSE CountFiles(Tail(handler))

\* the registered handler commands in which %f occurs
FileHandlers ==
  {typehandlers[i].data : i \in {j \in 1..Len(typehandlers) :
                                   CountFiles(typehandlers[j].data) > 0}}

\* the temporary files that exist after the events of l: created by a
\* tempfile event and not removed since
RECURSIVE FilesLeft(_)
FilesLeft(l) ==
  IF l = <<>> THEN {}
  ELSE LET before == FilesLeft(SubSeq(l, 1, Len(l) - 1))
           e == l[Len(l)]
       IN CASE e.ev = "tempfile" -> before \cup {e.args[1]}
            [] e.ev = "remove"   -> before \ {e.args[1]}
            [] OTHER             -> before

SavedTargets ==
  {Ptr("menu", i) : i \in 1..Len(menu)}
  \cup {p \in Targets : deref(World, p).type \in {"4", "5", "6", "9"}}

\* the part of path after its last '/', the whole path when it has none
TrailingSegment(path) ==
  IF \E i \in 1..Len(path) : path[i] = "/"
  THEN SubSeq(path, 1 + CHOOSE i \in 1..Len(path) :
                          path[i] = "/" /\ \A j \in (i+1)..Len(path) : path[j] # "/",
              Len(path))
  ELSE path

\* C26: for a binary selector, or any menu entry chosen with `save`, the
\* suggested file name ends in the part of the path after its last '/', and
\* when the path has no '/' the operation still completes without fault;
\* menu and history stay as they are
C26_SaveCompletes ==
  \A p \in SavedTargets : \A env \in Env(session, {"net", "line", "ub", "io"}) :
    LET to == deref(World, p)
        w == download_to_file(Fresh, to, env)
    IN /\ w.status = "run"
       /\ w.menu = menu /\ w.history = history
       /\ \A i \in EventsOf(w.log, "write_file") :
            read_line(stdin_line(Fresh, env)) = <<>> =>
              \E dir \in {<<".">>} \cup {variables[v].data : v \in 1..Len(variables)} :
                w.log[i].args[1] = snprintf(dir \o <<"/">> \o TrailingSegment(to.path))

(***************************************************************************)
(* C27: the three selector lists share no node (navigate, src/delve.c      *)
(* 1497-1505; cmd_open 1723-1727).                                         *)
(***************************************************************************)
\* the allocations the entries of list come from
NodesOf(list) == {list[i].node : i \in 1..Len(list)}

\* C27: in every reachable state no selector node is in two of menu, history
\* and bookmarks.  Every history entry is a node copy_selector allocated for
\* it, every menu entry one parse_selector_list allocated and every bookmark
\* one parse_selector allocated: the entries of history are none of the
\* nodes released with the old menu nor the node `open` parsed and frees.
C27_NoSharedNode ==
  /\ NodesOf(history) \subseteq {"copy_selector"}
  /\ NodesOf(menu) \subseteq {"parse_selector_list"}
  /\ NodesOf(bookmarks) \subseteq {"parse_selector"}
  /\ NodesOf(history) \cap NodesOf(menu) = {}
  /\ NodesOf(history) \cap NodesOf(bookmarks) = {}
  /\ NodesOf(menu) \cap NodesOf(bookmarks) = {}
  /\ \A p \in Targets :
       copy_selector(deref(World, p)).node \notin NodesOf(menu) \cup NodesOf(bookmarks)

\* history holds the copy of a menu entry that was selected and of a
\* locator that was opened, the menu has been replaced and a bookmark made
C27_Witness ==
  /\ pc = "shell"
  /\ Len(history) >= 2
  /\ menu # <<>>
  /\ bookmarks # <<>>

(***************************************************************************)
(* C28: a token that begins with $ (next_token, src/delve.c 1233-1247).    *)
(***************************************************************************)
\* names a $ token may carry: set ones in either case, an unset one, none
TokenNames == {<<"v">>, <<"V">>, <<"q">>, <<"r">>, <<"u">>, <<>>}

\* what may follow the $ token on its line
TokenRests == {<<>>, <<" ", "x">>, <<"\t", "$", "v", " ", "#">>}

\* C28: a token that begins with $ is replaced by the current value of the
\* session variable named by the rest of the token, and by the empty string
\* when that variable is unset; the result is one token: the whole value,
\* spaces, quotes, # and $ included, and the line goes on after the name
C28_VariableToken ==
  \A name \in TokenNames : \A rest \in TokenRests :
    LET t == next_token(variables, <<"$">> \o name \o rest)
        set == {i \in 1..Len(variables) : strcasecmp(variables[i].name, name) = 0}
    IN /\ set = {} => t.tok = <<>>
       /\ set # {} => \E i \in set : t.tok = variables[i].data
       /\ t.rest = IF rest = <<>> THEN <<>> ELSE Tail(rest)

(***************************************************************************)
(* C29: `bookmarks NAME URL` (cmd_bookmarks, src/delve.c 1786-1801).       *)
(***************************************************************************)
\* the NAME and the URL of the line cmd_bookmarks is called with
BookmarkName == next_token(variables, CurToken.rest)

BookmarkURL == next_token(variables, BookmarkName.rest)

\* cmd_bookmarks is called with a NAME and a non-empty URL
DefinesBookmark ==
  /\ Dispatches("cmd_bookmarks")
  /\ BookmarkURL.tok # NULL
  /\ BookmarkURL.tok # <<>>

\* C29: `bookmarks NAME URL` with a non-empty URL appends exactly one
\* bookmark whose host, port, type and path are those of parse(URL), whose
\* name is NAME and whose index is the previous number of bookmarks plus 1;
\* the existing bookmarks, menu and history are unchanged and nothing is
\* fetched
C29_BookmarkAppended ==
  [][DefinesBookmark =>
       LET parsed == parse_selector(BookmarkURL.tok)
       IN /\ Len(bookmarks') = Len(bookmarks) + 1
          /\ SubSeq(bookmarks', 1, Len(bookmarks)) = bookmarks
          /\ LET new == bookmarks'[Len(bookmarks')]
             IN /\ new.host = parsed.host /\ new.port = parsed.port
                /\ new.type = parsed.type /\ new.path = parsed.path
                /\ new.name = BookmarkName.tok
                /\ new.index = Len(bookmarks) + 1
          /\ menu' = menu /\ history' = history
          /\ log' = Called("cmd_bookmarks").log]_vars

(***************************************************************************)
(* C30: the nesting counter of eval (src/delve.c 1843-1877).               *)
(***************************************************************************)
\* C30: the nesting counter is balanced.  It counts exactly the eval calls
\* that are active, so when a call returns, at the end of its text, after
\* an unknown command or rejected at the ceiling, the counter is what it
\* was just before the call; it is 0 whenever the shell reads a line, and
\* never above the ceiling
C30_NestingBalanced ==
  /\ nested = Len(stack)
  /\ nested \in 0..MaxNested
  /\ pc \in {"main", "shell"} => nested = 0

\* the shell reads its next line after an input whose expansion was
\* rejected at the ceiling
C30_Witness ==
  /\ pc = "shell"
  /\ nested = 0
  /\ \E i \in 1..Len(log) : IsError(log[i], "eval() nested too deeply")

(***************************************************************************)
(* C31: `back` with two or more history entries (cmd_back, src/delve.c     *)
(* 1741-1752; navigate 1497-1505).                                         *)
(***************************************************************************)
\* C31: `back` with at least two history entries and a successful fetch
\* removes exactly the head entry, makes menu the list decoded from the
\* response for the new head and pushes nothing: history is one shorter and
\* the remaining entries keep their order and indices
C31_BackPopsHead ==
  Len(history) >= 2 =>
    \A env \in SucceedingEnv :
      LET w == cmd_back(Fresh, <<>>, env)
      IN /\ w.history = Tail(history)
         /\ Len(w.history) = Len(history) - 1
         /\ w.menu = parse_selector_list(env.net.data)
         /\ w.log # <<>> /\ w.log[1].ev = "send"
         /\ w.log[1].args[2] = history[2].host

(***************************************************************************)
(* C32: `back` with fewer than two history entries (cmd_back, src/delve.c  *)
(* 1741-1752).                                                             *)
(***************************************************************************)
\* C32: `back` with zero or one history entry reports 'history empty' and
\* leaves history and menu unchanged, whatever the environment would
\* answer; and no step of the program makes a non-empty history empty
C32_BackKeepsLastEntry ==
  [][/\ history # <<>> => history' # <<>>
     /\ Len(history) <= 1 =>
          \A env \in Env(session, {"net", "line"}) :
            cmd_back(Fresh, <<>>, env) = error(Fresh, "history empty", <<>>, 0)
     /\ (Dispatches("cmd_back") /\ Len(history) <= 1) =>
          /\ history' = history /\ menu' = menu
          /\ log' = error(Called("cmd_back"), "history empty", <<>>, 0).log]_vars

\* `back` was answered with 'history empty' while history holds one entry
C32_Witness ==
  /\ Len(history) = 1
  /\ menu # <<>>
  /\ Len(log) >= 2
  /\ log[Len(log) - 1] = Ev("cmd", "cmd_back", <<>>, 0)
  /\ IsError(log[Len(log)], "history empty")

(***************************************************************************)
(* C33: the indices of history (prepend_selector, src/delve.c 1151-1155;   *)
(* cmd_back 1741-1752; cmd_history 1779-1783; find_selector 1158-1163).    *)
(***************************************************************************)
\* the line a user types for the number n, n < 10
NumberLine(n) == <<Digits[n + 1]>>

\* C33: in every reachable state the history entries carry the indices
\* k, k-1, ..., 1 from head to tail, k being the length of history; the
\* indices are pairwise distinct, and `history N` addresses exactly one
\* entry, the N-th oldest, and none for N = 0 or N > k
C33_HistoryIndices ==
  LET k == Len(history)
  IN /\ \A i \in 1..k : history[i].index = k + 1 - i
     /\ \A i, j \in 1..k : history[i].index = history[j].index => i = j
     /\ \A n \in 1..k :
          /\ Cardinality({i \in 1..k : history[i].index = n}) = 1
          /\ find_selector(history, NumberLine(n)) = k + 1 - n
     /\ find_selector(history, NumberLine(0)) = 0
     /\ find_selector(history, NumberLine(k + 1)) = 0

\* `history 1` has fetched the oldest of two entries, which is now also
\* the newest of three
C33_Witness ==
  /\ Len(history) = 3
  /\ Len(log) >= 2
  /\ log[1] = Ev("cmd", "cmd_history", <<>>, 0)
  /\ log[2].ev = "send" /\ log[2].args[2] = history[3].host
  /\ history[1].host = history[3].host
  /\ history[2].host # history[3].host

(***************************************************************************)
(* C34: what history holds (navigate, src/delve.c 1489-1523; cmd_back      *)
(* 1741-1752).                                                             *)
(***************************************************************************)
\* the selectors navigate may be called with that are no menu and no search
OtherTargets ==
  {p \in Targets \cup TextTargets \cup HandledTargets :
     deref(World, p).type \notin {"1", "7"}}

\* C34: every entry of history has type '1' or '7' in every reachable
\* state; navigating to a text, binary, informational, error or
\* handler-dispatched selector adds no history entry
C34_HistoryHoldsMenus ==
  /\ \A i \in 1..Len(history) : history[i].type \in {"1", "7"}
  /\ \A p \in OtherTargets : \A env \in Env(session, navigate_reads(World, p)) :
       navigate(Fresh, p, env).history = history

\* a text was fetched and shown from a menu that history records, and
\* history holds that menu only
C34_Witness ==
  /\ pc = "shell"
  /\ Len(history) = 1
  /\ menu # <<>>
  /\ log # <<>> /\ log[Len(log)].ev = "print_text"
  /\ EventsOf(log, "send") # {}

(***************************************************************************)
(* C35: handlers registered for the types navigate knows (src/delve.c      *)
(* 1489-1523).                                                             *)
(***************************************************************************)
\* the selectors navigate may be called with whose type has a case of its
\* own in navigate's switch
BuiltinTargets ==
  {p \in Targets : deref(World, p).type \in BuiltinTypes \ {"0"}}

\* C35: a type handler registered for '1', '7', '4', '5', '6', '9', 'i' or
\* '3' is never run by navigate: for a selector of such a type no command
\* is run and navigate does what it does with an empty type-handler store
C35_BuiltinBeforeHandler ==
  \A p \in BuiltinTargets : \A env \in Env(session, navigate_reads(World, p)) :
    LET w == navigate(Fresh, p, env)
        plain == navigate([Fresh EXCEPT !.typehandlers = <<>>], p, env)
    IN /\ EventsOf(w.log, "system") = {}
       /\ w = [plain EXCEPT !.typehandlers = typehandlers]

\* with a handler registered for '1', `open h` fetched and showed the menu
\* and ran no command
C35_Witness ==
  /\ session = "builtin"
  /\ Registered("1") # NULL
  /\ menu # <<>>
  /\ log # <<>> /\ log[1] = Ev("cmd", "cmd_open", <<>>, 0)
  /\ log[Len(log)].ev = "print_menu"
  /\ EventsOf(log, "system") = {}

(***************************************************************************)
(* C36: the shell's choice between navigate and eval (shell, src/delve.c   *)
(* 1937-1947; find_selector 1158-1163).                                    *)
(***************************************************************************)
\* the lines a user may type, without their leading blanks and their line
\* break
ShellLines ==
  {LET line == str_split(str_skip(input, Blanks), LineBreaks).tok
   IN IF line # NULL THEN line ELSE <<>> : input \in InputLines(session)}

\* the leading integer of line is positive and is the index of a menu entry
Selects(line) ==
  atoi(line) > 0 /\ \E i \in 1..Len(menu) : menu[i].index = atoi(line)

\* the menu entry a selecting line names
Selected(line) == CHOOSE i \in 1..Len(menu) : menu[i].index = atoi(line)

\* the state as navigate on the selected entry leaves it, for some answer
\* of the environment
NavigatedTo(line) ==
  \E env \in Env(session, {"net", "line", "ub", "io"}) :
    LET w == navigate([Fresh EXCEPT !.stdin = <<>>], Ptr("menu", Selected(line)), env)
    IN /\ menu' = w.menu /\ history' = w.history /\ bookmarks' = w.bookmarks
       /\ variables' = w.variables /\ aliases' = w.aliases
       /\ typehandlers' = w.typehandlers /\ log' = w.log
       /\ pc' = IF w.status = "run" THEN "shell" ELSE w.status

\* C36: in the shell a line whose leading integer is positive and equals
\* the index of an entry of the current menu navigates to that entry and is
\* never evaluated as a command or alias; every other line is passed to
\* eval as it is
C36_ShellDispatch ==
  [][(pc = "shell" /\ pc' # "exit") =>
       \/ /\ pc' = "eval"
          /\ nested' = 1 /\ Len(stack') = 1
          /\ stack'[1].str \in ShellLines
          /\ ~Selects(stack'[1].str)
          /\ stack'[1].filename = NULL
          /\ UNCHANGED <<menu, history, bookmarks, variables, aliases, typehandlers>>
       \/ /\ pc' # "eval"
          /\ UNCHANGED <<nested, stack>>
          /\ \E line \in ShellLines : Selects(line) /\ NavigatedTo(line)]_vars

====
